---- MODULE Spec2Model ----
(***************************************************************************)
(* Verification model of NTRIP-Analyser: the RTCM 3.x framers of the GUI   *)
(* worker (gui/gui_thread.c) and of the CLI sessions (src/ntrip_handler.c),*)
(* the dispatcher analyze_rtcm_message (src/rtcm3x_parser.c), the socket   *)
(* life cycle of the session functions, and the worker / UI-thread         *)
(* protocol of the GUI (gui/gui_events.c, gui/gui_main.c).                 *)
(***************************************************************************)
EXTENDS Integers, Sequences, FiniteSets, TLC

VARIABLES
    \* ---- framing (SpecFramer) ----
    stream,        \* bytes that follow the HTTP header on the wire
    rd_pos,        \* number of wire bytes already returned by recv()
    oneRead,       \* at most one recv() has returned data so far
    byteReads,     \* every recv() so far returned exactly one byte
    now,           \* monotonic clock (gui_get_time_seconds / get_time_seconds)
    msg_buf,       \* WorkerOpenStream: msg_buf[] (bytes written so far, stale ones kept)
    msg_pos,       \* WorkerOpenStream: msg_pos
    msg_target,    \* WorkerOpenStream: msg_target
    gui_emitted,   \* frames WorkerOpenStream handed to analyze_rtcm_message
    msgStats,      \* AppState.msgStats, entries that differ from the zeroed one
    msg_buffer,    \* CLI sessions: msg_buffer[0 .. msg_buffer_len)
    cli_emitted,   \* frames the CLI loop handed to analyze_rtcm_message
    cli_output,    \* decoder output of start_ntrip_stream, one entry per frame
    cli_spin,      \* the CLI copy loop can make no progress (buffer full)
    \* ---- CLI session functions (SpecSession) ----
    sess_kind,       \* which session function of ntrip_handler.c is running
    sess_pc,         \* the blocking call it is at, or "returned"
    sock,            \* the session's socket: "none", "open" or "closed"
    close_count,     \* number of CLOSESOCKET(sock) calls made
    header_skipped,  \* header_skipped
    sess_now,        \* time(NULL), in seconds
    start_time,      \* start_time
    last_gga_time,   \* last_gga_time
    gga_count,       \* GGA sentences handed to send()
    sess_exit,       \* the exit path taken
    \* ---- GUI: UI thread and worker threads (SpecGui) ----
    w_kind,            \* per thread ever created: "none", "stream", "mount"
    w_pc,              \* per thread: the call it is at, or "exited"
    w_header_done,     \* per thread: WorkerOpenStream's header_done
    w_frames,          \* per thread: frames completed so far on its connection
    frames_left,       \* frames the casters will still send
    w_recv_since_stop, \* per thread: recv() calls completed since the flag was set
    bWorkerRunning,    \* AppState.bWorkerRunning
    bStopRequested,    \* AppState.bStopRequested
    hWorkerThread,     \* AppState.hWorkerThread (0 = NULL)
    ui_pc,             \* what the UI thread is doing
    hDetail,           \* AppState.hDetailWnds[T] != NULL for the one type T streamed
    lvRow,             \* the statistics list view has a row for T
    queue,             \* messages posted to the main window, oldest first
    heap,              \* the RtcmRawMsg copies allocated and not freed; fault: a bad free
    last_stat,         \* per thread: frame of the last statistics update shown
    last_raw,          \* per thread: frame of the last raw message handled
    \* ---- response header (SpecHeader) ----
    wire,              \* the bytes the caster sends: response header, then data
    wire_pos,          \* number of wire bytes already returned by recv()
    hdr_kind,          \* the function reading the response
    header_buf,        \* WorkerOpenStream: header_buf[0 .. header_pos)
    header_done,       \* WorkerOpenStream: header_done; CLI: header_skipped
    hdr_exit,          \* how the function left its loop, "none" while it runs
    hdr_fed,           \* bytes passed on to the framing loop so far
    buf_top,           \* highest index of the receive buffer written so far, -1 for none
    \* ---- message statistics (SpecStats) ----
    st_now,            \* the clock get_time_seconds() reads
    st_stats,          \* stats[]: message type -> MsgStats entry
    st_log,            \* the frames completed so far: [msg_type, time]
    \* ---- satellite summary (SpecSat) ----
    summary,           \* SatStatsSummary: gnss[0 .. gnss_count)
    sat_calls,         \* number of calls of extract_satellites so far
    \* ---- one call of analyze_rtcm_message (SpecAnalyze) ----
    an_data,           \* the memory data points to
    an_length,         \* the argument length
    an_suppress,       \* the argument suppress_output
    an_called,         \* the call has returned
    an_result,         \* its return value and what it printed
    \* ---- stream format detection of the GUI worker (SpecFormat) ----
    sourceFormat,      \* AppState.sourceFormat: the keywords it contains
    sourceDetails,     \* AppState.sourceDetails: the keywords it contains
    fm_wire,           \* the data bytes that follow the response header
    fm_pos,            \* number of them already returned by recv()
    detected_format,   \* WorkerOpenStream: detected_format
    decode_active,     \* WorkerOpenStream: decode_active
    first_data_check,  \* WorkerOpenStream: first_data_check
    streamFormat,      \* AppState.streamFormat
    streamBytes,       \* AppState.streamBytes
    fm_g,              \* msg_buf, msg_pos, msg_target, frames analysed, msgStats
    fm_hDetail,        \* a detail window is open for every message type
    fm_raw,            \* the raw frames posted with WM_APP_MSG_RAW
    \* ---- receive_mount_table's read loop (SpecTable) ----
    tb_wire,           \* the bytes the caster sends in answer to the request
    tb_pos,            \* number of them already returned by recv()
    tb_keepalive,      \* the caster keeps the connection open after them
    mount_table,       \* mount_table[0 .. mount_table_size)
    tb_exit,           \* how the loop was left, "none" while it runs
    \* ---- the output sink of the decoders (SpecSink) ----
    g_rtcm_strbuf,     \* rtcm3x_parser.c: g_rtcm_strbuf, 0 for NULL, else the sb it points to
    sb_id,             \* the WM_APP_MSG_RAW handler's local sb: which invocation it belongs to
    sb_scope,          \* that local is in scope
    sb_buf,            \* sb.buf: "none", "heap", "null" (malloc failed) or "freed"
    sb_out,            \* what was printed into sb
    sk_ui,             \* where the UI thread is in the WM_APP_MSG_RAW handler
    sk_raw,            \* raw->data of the message it handles
    sk_wk_calls,       \* calls of analyze_rtcm_message the worker has made
    sk_log,            \* the accesses to g_rtcm_strbuf so far: [thread, op]
    \* ---- state shared by the UI thread and the workers (SpecShared) ----
    sh_config,         \* AppState.config: MOUNTPOINT
    sh_edit,           \* the text of the mountpoint edit control
    sh_running,        \* AppState.bWorkerRunning
    sh_stop,           \* AppState.bStopRequested
    sh_thread,         \* AppState.hWorkerThread (0 = NULL)
    sh_ui,             \* "idle", or "wait" inside OnCloseStream
    sh_wk,             \* per thread ever created: "none", "connect", "stream", "exited"
    sh_request,        \* per thread: the mountpoint it put into its request
    sh_bytes,          \* AppState.streamBytes
    sh_seen,           \* totalBytes the status timer showed last in this session
    sh_done,           \* WM_APP_STREAM_DONE messages posted and not yet handled
    \* ---- CLI frame assembly on full-size reads (SpecAssembly) ----
    asm_wire,          \* the bytes the caster repeats for ever after the header
    asm_recvd,         \* number of wire bytes recv() has returned so far
    asm_reads,         \* number of recv() calls that returned data
    asm_buffer,        \* msg_buffer[0 .. msg_buffer_len)
    asm_frames,        \* number of frames handed to analyze_rtcm_message
    asm_spin,          \* a pass of the copy loop copied nothing
    asm_split,         \* the last chunk did not fit into msg_buffer in one copy
    \* ---- decoded text for a detail window (SpecDetail) ----
    dt_slot,           \* AppState.hDetailWnds[T]: 0 for NULL, else a window handle
    dt_windows,        \* the detail windows that exist
    dt_created,        \* number of detail windows created so far
    dt_queue,          \* posted messages of the UI thread, oldest first
    dt_heap,           \* text blocks: [live, fault]
    dt_frames,         \* frames of type T the worker has completed
    dt_worker,         \* "stream" while WorkerOpenStream runs, then "exited"
    dt_shown,          \* text blocks shown by SetWindowText so far
    \* ---- the capture buffer of rtcm_printf (SpecCapture) ----
    cb_buf,            \* RtcmStrBuf.buf: "none" before init, "heap", "null"
    cb_len,            \* RtcmStrBuf.len
    cb_cap,            \* RtcmStrBuf.cap
    cb_text,           \* number of leading bytes of buf that hold printed text
    cb_calls,          \* calls of rtcm_printf so far
    cb_overrun         \* vsnprintf was given a size larger than the room behind buf + len

framerVars == <<stream, rd_pos, oneRead, byteReads, now, msg_buf, msg_pos, msg_target,
                gui_emitted, msgStats, msg_buffer, cli_emitted, cli_output,
                cli_spin>>

sessVars == <<sess_kind, sess_pc, sock, close_count, header_skipped, sess_now,
              start_time, last_gga_time, gga_count, sess_exit>>

guiVars == <<w_kind, w_pc, w_header_done, w_frames, frames_left, w_recv_since_stop,
             bWorkerRunning, bStopRequested, hWorkerThread, ui_pc, hDetail, lvRow,
             queue, heap, last_stat, last_raw>>

hdrVars == <<wire, wire_pos, hdr_kind, header_buf, header_done, hdr_exit,
             hdr_fed, buf_top>>

statVars == <<st_now, st_stats, st_log>>

satVars == <<summary, sat_calls>>

anVars == <<an_data, an_length, an_suppress, an_called, an_result>>

fmtVars == <<sourceFormat, sourceDetails, fm_wire, fm_pos, detected_format,
             decode_active, first_data_check, streamFormat, streamBytes, fm_g,
             fm_hDetail, fm_raw>>

tblVars == <<tb_wire, tb_pos, tb_keepalive, mount_table, tb_exit>>

sinkVars == <<g_rtcm_strbuf, sb_id, sb_scope, sb_buf, sb_out, sk_ui, sk_raw,
              sk_wk_calls, sk_log>>

shVars == <<sh_config, sh_edit, sh_running, sh_stop, sh_thread, sh_ui, sh_wk,
            sh_request, sh_bytes, sh_seen, sh_done>>

asmVars == <<asm_wire, asm_recvd, asm_reads, asm_buffer, asm_frames, asm_spin, asm_split>>

dtVars == <<dt_slot, dt_windows, dt_created, dt_queue, dt_heap, dt_frames, dt_worker, dt_shown>>

cbVars == <<cb_buf, cb_len, cb_cap, cb_text, cb_calls, cb_overrun>>

vars == <<framerVars, sessVars, guiVars, hdrVars, statVars, satVars, anVars, fmtVars,
         tblVars, sinkVars, shVars, asmVars, dtVars, cbVars>>

\* what the actions of one part of the model leave alone
notFramerVars == <<sessVars, guiVars, hdrVars, statVars, satVars, anVars, fmtVars, tblVars, sinkVars, shVars, asmVars, dtVars, cbVars>>
notSessVars == <<framerVars, guiVars, hdrVars, statVars, satVars, anVars, fmtVars, tblVars, sinkVars, shVars, asmVars, dtVars, cbVars>>
notGuiVars == <<framerVars, sessVars, hdrVars, statVars, satVars, anVars, fmtVars, tblVars, sinkVars, shVars, asmVars, dtVars, cbVars>>
notHdrVars == <<framerVars, sessVars, guiVars, statVars, satVars, anVars, fmtVars, tblVars, sinkVars, shVars, asmVars, dtVars, cbVars>>
notStatVars == <<framerVars, sessVars, guiVars, hdrVars, satVars, anVars, fmtVars, tblVars, sinkVars, shVars, asmVars, dtVars, cbVars>>
notSatVars == <<framerVars, sessVars, guiVars, hdrVars, statVars, anVars, fmtVars, tblVars, sinkVars, shVars, asmVars, dtVars, cbVars>>
notAnVars == <<framerVars, sessVars, guiVars, hdrVars, statVars, satVars, fmtVars, tblVars, sinkVars, shVars, asmVars, dtVars, cbVars>>
notFmtVars == <<framerVars, sessVars, guiVars, hdrVars, statVars, satVars, anVars, tblVars, sinkVars, shVars, asmVars, dtVars, cbVars>>
notTblVars == <<framerVars, sessVars, guiVars, hdrVars, statVars, satVars, anVars, fmtVars, sinkVars, shVars, asmVars, dtVars, cbVars>>
notSinkVars == <<framerVars, sessVars, guiVars, hdrVars, statVars, satVars, anVars, fmtVars, tblVars, shVars, asmVars, dtVars, cbVars>>
notShVars == <<framerVars, sessVars, guiVars, hdrVars, statVars, satVars, anVars, fmtVars, tblVars, sinkVars, asmVars, dtVars, cbVars>>
notAsmVars == <<framerVars, sessVars, guiVars, hdrVars, statVars, satVars, anVars, fmtVars, tblVars, sinkVars, shVars, dtVars, cbVars>>
notDtVars == <<framerVars, sessVars, guiVars, hdrVars, statVars, satVars, anVars, fmtVars, tblVars, sinkVars, shVars, asmVars, cbVars>>
notCbVars == <<framerVars, sessVars, guiVars, hdrVars, statVars, satVars, anVars, fmtVars, tblVars, sinkVars, shVars, asmVars, dtVars>>

MaxWorkers == 2    \* threads created during one run of the program
MaxFrames == 2     \* frames received during one run of the program

Workers == 1..MaxWorkers

\* the program has been started and no button has been pressed
GuiIdle ==
    /\ w_kind = [w \in Workers |-> "none"]
    /\ w_pc = [w \in Workers |-> "exited"]
    /\ w_header_done = [w \in Workers |-> FALSE]
    /\ w_frames = [w \in Workers |-> 0]
    /\ frames_left = MaxFrames
    /\ w_recv_since_stop = [w \in Workers |-> 0]
    /\ bWorkerRunning = FALSE
    /\ bStopRequested = FALSE
    /\ hWorkerThread = 0
    /\ ui_pc = "idle"
    /\ hDetail = FALSE
    /\ lvRow = FALSE
    /\ queue = <<>>
    /\ heap = [live |-> {}, fault |-> FALSE]
    /\ last_stat = [w \in Workers |-> 0]
    /\ last_raw = [w \in Workers |-> 0]

\* no response is being read
HeaderIdle ==
    /\ wire = <<>>
    /\ wire_pos = 0
    /\ hdr_kind = "none"
    /\ header_buf = <<>>
    /\ header_done = FALSE
    /\ hdr_exit = "none"
    /\ hdr_fed = <<>>
    /\ buf_top = -1

\* no byte stream is being framed
FramerIdle ==
    /\ stream = <<>>
    /\ rd_pos = 0
    /\ oneRead = TRUE
    /\ byteReads = TRUE
    /\ now = 0
    /\ msg_buf = <<>>
    /\ msg_pos = 0
    /\ msg_target = 0
    /\ gui_emitted = <<>>
    /\ msgStats = <<>>
    /\ msg_buffer = <<>>
    /\ cli_emitted = <<>>
    /\ cli_output = <<>>
    /\ cli_spin = FALSE

\* no CLI session function has been called
SessionIdle ==
    /\ sess_kind = "none"
    /\ sess_pc = "returned"
    /\ sock = "none"
    /\ close_count = 0
    /\ header_skipped = FALSE
    /\ sess_now = 0
    /\ start_time = 0
    /\ last_gga_time = 0
    /\ gga_count = 0
    /\ sess_exit = "none"

\* no frame has been counted
StatIdle ==
    /\ st_now = 0
    /\ st_stats = <<>>
    /\ st_log = <<>>

\* extract_satellites has not been called: SatStatsSummary summary = {0}
SatIdle ==
    /\ summary = <<>>
    /\ sat_calls = 0

\* analyze_rtcm_message is not being examined on its own
AnalyzeIdle ==
    /\ an_data = <<>>
    /\ an_length = 0
    /\ an_suppress = TRUE
    /\ an_called = FALSE
    /\ an_result = [ret |-> 0, out |-> <<>>]

FormatIdle ==
    /\ sourceFormat = {}
    /\ sourceDetails = {}
    /\ fm_wire = <<>>
    /\ fm_pos = 0
    /\ detected_format = 0
    /\ decode_active = FALSE
    /\ first_data_check = TRUE
    /\ streamFormat = 0
    /\ streamBytes = 0
    /\ fm_g = <<>>
    /\ fm_hDetail = FALSE
    /\ fm_raw = <<>>

TableIdle ==
    /\ tb_wire = <<>>
    /\ tb_pos = 0
    /\ tb_keepalive = FALSE
    /\ mount_table = <<>>
    /\ tb_exit = "none"

SinkIdle ==
    /\ g_rtcm_strbuf = 0
    /\ sb_id = 0
    /\ sb_scope = FALSE
    /\ sb_buf = "none"
    /\ sb_out = <<>>
    /\ sk_ui = "idle"
    /\ sk_raw = <<>>
    /\ sk_wk_calls = 0
    /\ sk_log = {}

SharedIdle ==
    /\ sh_config = ""
    /\ sh_edit = ""
    /\ sh_running = FALSE
    /\ sh_stop = FALSE
    /\ sh_thread = 0
    /\ sh_ui = "idle"
    /\ sh_wk = [w \in Workers |-> "none"]
    /\ sh_request = [w \in Workers |-> ""]
    /\ sh_bytes = 0
    /\ sh_seen = 0
    /\ sh_done = 0

\* no full-size read is being assembled
AssemblyIdle ==
    /\ asm_wire = <<>>
    /\ asm_recvd = 0
    /\ asm_reads = 0
    /\ asm_buffer = <<>>
    /\ asm_frames = 0
    /\ asm_spin = FALSE
    /\ asm_split = FALSE

\* no detail window has been opened and no frame has arrived
DetailIdle ==
    /\ dt_slot = 0
    /\ dt_windows = {}
    /\ dt_created = 0
    /\ dt_queue = <<>>
    /\ dt_heap = [live |-> {}, fault |-> FALSE]
    /\ dt_frames = 0
    /\ dt_worker = "stream"
    /\ dt_shown = 0

\* no capture buffer has been set up
CaptureIdle ==
    /\ cb_buf = "none"
    /\ cb_len = 0
    /\ cb_cap = 0
    /\ cb_text = 0
    /\ cb_calls = 0
    /\ cb_overrun = FALSE

NotFramerIdle == SessionIdle /\ GuiIdle /\ HeaderIdle /\ StatIdle /\ SatIdle /\ AnalyzeIdle /\ FormatIdle /\ TableIdle /\ SinkIdle /\ SharedIdle /\ AssemblyIdle /\ DetailIdle /\ CaptureIdle
NotSessIdle == FramerIdle /\ GuiIdle /\ HeaderIdle /\ StatIdle /\ SatIdle /\ AnalyzeIdle /\ FormatIdle /\ TableIdle /\ SinkIdle /\ SharedIdle /\ AssemblyIdle /\ DetailIdle /\ CaptureIdle
NotGuiIdle == FramerIdle /\ SessionIdle /\ HeaderIdle /\ StatIdle /\ SatIdle /\ AnalyzeIdle /\ FormatIdle /\ TableIdle /\ SinkIdle /\ SharedIdle /\ AssemblyIdle /\ DetailIdle /\ CaptureIdle
NotHdrIdle == FramerIdle /\ SessionIdle /\ GuiIdle /\ StatIdle /\ SatIdle /\ AnalyzeIdle /\ FormatIdle /\ TableIdle /\ SinkIdle /\ SharedIdle /\ AssemblyIdle /\ DetailIdle /\ CaptureIdle
NotStatIdle == FramerIdle /\ SessionIdle /\ GuiIdle /\ HeaderIdle /\ SatIdle /\ AnalyzeIdle /\ FormatIdle /\ TableIdle /\ SinkIdle /\ SharedIdle /\ AssemblyIdle /\ DetailIdle /\ CaptureIdle
NotSatIdle == FramerIdle /\ SessionIdle /\ GuiIdle /\ HeaderIdle /\ StatIdle /\ AnalyzeIdle /\ FormatIdle /\ TableIdle /\ SinkIdle /\ SharedIdle /\ AssemblyIdle /\ DetailIdle /\ CaptureIdle
NotAnIdle == FramerIdle /\ SessionIdle /\ GuiIdle /\ HeaderIdle /\ StatIdle /\ SatIdle /\ FormatIdle /\ TableIdle /\ SinkIdle /\ SharedIdle /\ AssemblyIdle /\ DetailIdle /\ CaptureIdle
NotFmtIdle == FramerIdle /\ SessionIdle /\ GuiIdle /\ HeaderIdle /\ StatIdle /\ SatIdle /\ AnalyzeIdle /\ TableIdle /\ SinkIdle /\ SharedIdle /\ AssemblyIdle /\ DetailIdle /\ CaptureIdle
NotTblIdle == FramerIdle /\ SessionIdle /\ GuiIdle /\ HeaderIdle /\ StatIdle /\ SatIdle /\ AnalyzeIdle /\ FormatIdle /\ SinkIdle /\ SharedIdle /\ AssemblyIdle /\ DetailIdle /\ CaptureIdle
NotSinkIdle == FramerIdle /\ SessionIdle /\ GuiIdle /\ HeaderIdle /\ StatIdle /\ SatIdle /\ AnalyzeIdle /\ FormatIdle /\ TableIdle /\ SharedIdle /\ AssemblyIdle /\ DetailIdle /\ CaptureIdle
NotShIdle == FramerIdle /\ SessionIdle /\ GuiIdle /\ HeaderIdle /\ StatIdle /\ SatIdle /\ AnalyzeIdle /\ FormatIdle /\ TableIdle /\ SinkIdle /\ AssemblyIdle /\ DetailIdle /\ CaptureIdle
NotAsmIdle == FramerIdle /\ SessionIdle /\ GuiIdle /\ HeaderIdle /\ StatIdle /\ SatIdle /\ AnalyzeIdle /\ FormatIdle /\ TableIdle /\ SinkIdle /\ SharedIdle /\ DetailIdle /\ CaptureIdle
NotDtIdle == FramerIdle /\ SessionIdle /\ GuiIdle /\ HeaderIdle /\ StatIdle /\ SatIdle /\ AnalyzeIdle /\ FormatIdle /\ TableIdle /\ SinkIdle /\ SharedIdle /\ AssemblyIdle /\ CaptureIdle
NotCbIdle == FramerIdle /\ SessionIdle /\ GuiIdle /\ HeaderIdle /\ StatIdle /\ SatIdle /\ AnalyzeIdle /\ FormatIdle /\ TableIdle /\ SinkIdle /\ SharedIdle /\ AssemblyIdle /\ DetailIdle
                 /\ SatIdle

-----------------------------------------------------------------------------
(* Bounds of the model *)
MaxSegs == 3          \* segments (garbage byte or frame) per wire stream
MaxRead == 3          \* a recv() returns 1..MaxRead bytes, or all that is left
MaxTime == 1          \* clock ticks

(* Program constants *)
GUI_BUFFER_SIZE   == 4096
GUI_MAX_MSG_TYPES == 4096
BUFFER_SIZE       == 4096
MAX_MSG_TYPES     == 4096
PREAMBLE          == 211      \* 0xD3

-----------------------------------------------------------------------------
(* Bit arithmetic on naturals below 2^28 *)
RECURSIVE XorBits(_, _)
XorBits(a, b) ==
    IF a = 0 THEN b
    ELSE IF b = 0 THEN a
    ELSE (((a % 2) + (b % 2)) % 2) + (2 * XorBits(a \div 2, b \div 2))

XorNibble == [a \in 0..15 |-> [b \in 0..15 |-> XorBits(a, b)]]

\* a ^ b, four bits at a time
Xor(a, b) ==
      XorNibble[a % 16][b % 16]
    + (16 * XorNibble[(a \div 16) % 16][(b \div 16) % 16])
    + (256 * XorNibble[(a \div 256) % 16][(b \div 256) % 16])
    + (4096 * XorNibble[(a \div 4096) % 16][(b \div 4096) % 16])
    + (65536 * XorNibble[(a \div 65536) % 16][(b \div 65536) % 16])
    + (1048576 * XorNibble[(a \div 1048576) % 16][(b \div 1048576) % 16])
    + (16777216 * XorNibble[(a \div 16777216) % 16][(b \div 16777216) % 16])

Pow2Tab == <<1, 2, 4, 8, 16, 32, 64, 128, 256, 512, 1024, 2048, 4096, 8192,
             16384, 32768, 65536, 131072, 262144, 524288, 1048576, 2097152,
             4194304, 8388608, 16777216, 33554432>>

Pow2(n) == Pow2Tab[n + 1]

\* (x >> n) & 1
BitOf(x, n) == (x \div Pow2(n)) % 2

-----------------------------------------------------------------------------
(* CRC-24Q, rtcm3x_parser.c crc24q *)
\* the inner loop: j shifts of the 24-bit register
RECURSIVE Crc24qBits(_, _)
Crc24qBits(crc, j) ==
    IF j = 0 THEN crc
    ELSE LET c == IF crc >= 8388608                            \* crc & 0x800000
                  THEN Xor(crc * 2, 25578747) % 16777216       \* poly 0x1864CFB
                  ELSE (crc * 2) % 16777216
         IN  IF c \in Nat THEN Crc24qBits(c, j - 1) ELSE 0

\* the inner loop applied to one byte placed in bits 16..23 of a zero register
CrcTable == [x \in 0..255 |-> Crc24qBits(x * 65536, 8)]

\* the outer loop over bytes i..length: crc ^= data[i] << 16, then the inner
\* loop; the register is linear, so the eight shifts of (crc ^ byte << 16) are
\* the eight shifts of its top byte XOR the low 16 bits moved up by one byte.
\* The bytes are taken in order, the first half of the range and then the
\* second, so that a long buffer does not nest one evaluation per byte
RECURSIVE crc24qFrom(_, _, _, _)
crc24qFrom(data, length, i, crc) ==
    IF i > length THEN crc
    ELSE IF i = length
         THEN Xor((crc % 65536) * 256, CrcTable[Xor(crc \div 65536, data[i])])
         ELSE LET c == crc24qFrom(data, (i + length) \div 2, i, crc)
              IN  IF c \in Nat
                  THEN crc24qFrom(data, length, (i + length) \div 2 + 1, c)
                  ELSE 0

crc24q(data, length) == crc24qFrom(data, length, 1, 0)

-----------------------------------------------------------------------------
(* Sequences of bytes; C index i is element i + 1 *)
At(data, i) == data[i + 1]

Take(sq, n) == SubSeq(sq, 1, n)
Drop(sq, n) == SubSeq(sq, n + 1, Len(sq))

Min(a, b) == IF a < b THEN a ELSE b

\* ((data[1] & 0x03) << 8) | data[2]
MsgLength(data) == ((At(data, 1) % 4) * 256) + At(data, 2)

\* ((data[3] << 4) | (data[4] >> 4)) & 0x0FFF
MsgTypeOf(data) == (((At(data, 3) * 16) + (At(data, 4) \div 16)) % 4096)

\* the three bytes that follow the payload, big-endian
CrcExtracted(data) ==
    LET n == MsgLength(data)
    IN  (At(data, 3 + n) * 65536) + (At(data, 3 + n + 1) * 256) + At(data, 3 + n + 2)

CrcOk(data) == crc24q(data, 3 + MsgLength(data)) = CrcExtracted(data)

-----------------------------------------------------------------------------
(* Wire format of section 6: 0xD3, 6 reserved bits + 10-bit length,        *)
(* payload, CRC-24Q over preamble, length and payload.                     *)
MkFrame(payload) ==
    LET hdr == <<PREAMBLE, Len(payload) \div 256, Len(payload) % 256>> \o payload
        c   == crc24q(hdr, Len(hdr))
    IN  hdr \o <<c \div 65536, (c \div 256) % 256, c % 256>>

\* a frame with one bit of payload byte k flipped after the CRC was computed
FlipBit(frame, k) ==
    [i \in 1..Len(frame) |->
        IF i = 3 + k THEN Xor(frame[i], 1) ELSE frame[i]]

Payload1007 == <<62, 240, 211, 0>>   \* type 0x3EF, station 0x0D3, descriptor length 0
Payload1005 == <<62, 208>>           \* type 0x3ED, too short for the 1005 schema

Frame1007    == MkFrame(Payload1007)
Frame1005    == MkFrame(Payload1005)
Frame1007Bad == FlipBit(Frame1007, 3)   \* station id bit flipped: CRC mismatch

\* what can follow the response header on the wire
Segments == { <<0, 0, 0>>, <<PREAMBLE>>, Frame1007, Frame1005, Frame1007Bad }

RECURSIVE Flatten(_)
Flatten(ss) == IF ss = <<>> THEN <<>> ELSE Head(ss) \o Flatten(Tail(ss))

Streams ==
    { Flatten(ss) : ss \in UNION { [1..n -> Segments] : n \in 1..MaxSegs } }

-----------------------------------------------------------------------------
(* Specialised decoders, rtcm3x_parser.c: the guards that decide between   *)
(* "payload too short" and printing decoded fields.                        *)
DecodedTypes ==
    { 1005, 1006, 1019, 1077, 1074, 1084, 1094, 1124, 1087, 1097, 1117,
      1127, 1137, 1007, 1008, 1013, 1033, 1045, 1230, 1012 }

\* first length guard of each decoder (1012 has none)
MinPayload(t) ==
    CASE t = 1005 -> 19
      [] t = 1006 -> 21
      [] t = 1019 -> 51
      [] t = 1045 -> 48
      [] t \in {1013, 1033} -> 8
      [] t \in {1007, 1008, 1230} -> 4
      [] t = 1012 -> 0
      [] OTHER -> 20

\* payload is data + 3; payload_len is the declared length
Decode(t, data, payload_len) ==
    IF payload_len < MinPayload(t) THEN <<"PayloadTooShort">>
    ELSE IF t \in {1007, 1008} /\ payload_len < 4 + At(data, 3 + 3)
         THEN <<"PayloadTooShort">>
    ELSE IF t = 1008
              /\ payload_len < 4 + At(data, 3 + 3) + 1
                               + At(data, 3 + 4 + At(data, 3 + 3))
         THEN <<"PayloadTooShort">>
    ELSE <<"Fields">>

(* analyze_rtcm_message: the value returned and the lines printed *)
analyze_rtcm_message(data, length, suppress_output) ==
    IF length < 6 THEN [ret |-> -1, out |-> <<>>]
    ELSE IF At(data, 0) = PREAMBLE THEN
        LET msg_length == MsgLength(data)
            msg_type   == MsgTypeOf(data)
            frame_len  == msg_length + 6
            crc_fail   == length >= frame_len /\ ~CrcOk(data)
            body ==
                IF msg_type \in DecodedTypes
                THEN <<"Header">> \o Decode(msg_type, data, msg_length)
                ELSE IF length >= frame_len
                     THEN (IF crc_fail THEN <<"HeaderCrcFail">> ELSE <<>>)
                     ELSE <<"FrameIncomplete">>
        IN  [ret |-> msg_type,
             out |-> IF suppress_output THEN <<>>
                     ELSE body \o (IF crc_fail THEN <<"CrcCheckFail">> ELSE <<>>)]
    ELSE [ret |-> -1, out |-> IF suppress_output THEN <<>> ELSE <<"NonRtcm">>]

-----------------------------------------------------------------------------
(* Per-type statistics, gui_thread.c 422-438 (same code in                 *)
(* analyze_message_types, ntrip_handler.c 812-824)                         *)
ZeroStat == [count |-> 0, min_dt |-> 0, max_dt |-> 0, sum_dt |-> 0,
             last_time |-> 0, seen |-> FALSE]

StatOf(stats, t) == IF t \in DOMAIN stats THEN stats[t] ELSE ZeroStat

\* mutant: the first frame of a type only initialises its entry
UpdateStatCountWhenSeen(s, t_now) ==
    IF ~s.seen
    THEN [s EXCEPT !.seen = TRUE, !.last_time = t_now,
                   !.min_dt = 0, !.max_dt = 0, !.sum_dt = 0]
    ELSE LET dt == t_now - s.last_time
         IN  [s EXCEPT !.last_time = t_now,
                       !.sum_dt = s.sum_dt + dt,
                       !.min_dt = IF dt < s.min_dt \/ s.min_dt = 0
                                  THEN dt ELSE s.min_dt,
                       !.max_dt = IF dt > s.max_dt THEN dt ELSE s.max_dt,
                       !.count = s.count + 1]

\* mutant: the comparisons of min_dt and max_dt are exchanged
UpdateStatSwapped(s, t_now) ==
    LET s1 ==
          IF ~s.seen
          THEN [s EXCEPT !.seen = TRUE, !.last_time = t_now,
                         !.min_dt = 0, !.max_dt = 0, !.sum_dt = 0]
          ELSE LET dt == t_now - s.last_time
               IN  [s EXCEPT !.last_time = t_now,
                             !.sum_dt = s.sum_dt + dt,
                             !.min_dt = IF dt > s.min_dt \/ s.min_dt = 0
                                        THEN dt ELSE s.min_dt,
                             !.max_dt = IF dt < s.max_dt THEN dt ELSE s.max_dt]
    IN  [s1 EXCEPT !.count = s1.count + 1]

UpdateStat(s, t_now) ==
    LET s1 ==
          IF ~s.seen
          THEN [s EXCEPT !.seen = TRUE, !.last_time = t_now,
                         !.min_dt = 0, !.max_dt = 0, !.sum_dt = 0]
          ELSE LET dt == t_now - s.last_time
               IN  [s EXCEPT !.last_time = t_now,
                             !.sum_dt = s.sum_dt + dt,
                             !.min_dt = IF dt < s.min_dt \/ s.min_dt = 0
                                        THEN dt ELSE s.min_dt,
                             !.max_dt = IF dt > s.max_dt THEN dt ELSE s.max_dt]
    IN  [s1 EXCEPT !.count = s1.count + 1]

RecordStat(stats, t, t_now) ==
    [x \in DOMAIN stats \cup {t} |->
        IF x = t THEN UpdateStat(StatOf(stats, t), t_now) ELSE stats[x]]

-----------------------------------------------------------------------------
(* Frame assembly of WorkerOpenStream, gui_thread.c 378-475, one byte *)
WriteAt(buf, i, b) ==
    IF i < Len(buf) THEN [buf EXCEPT ![i + 1] = b] ELSE Append(buf, b)

\* mutant: a frame whose CRC does not match is dropped before the statistics
GuiFrameDoneCrcGated(g, t_now) ==
    LET frame    == Take(g.msg_buf, g.msg_target)
        msg_type == analyze_rtcm_message(g.msg_buf, g.msg_target, TRUE).ret
        counted  == msg_type > 0 /\ msg_type < GUI_MAX_MSG_TYPES /\ CrcOk(frame)
    IN  [g EXCEPT !.emitted = Append(@, [data |-> frame, msg_type |-> msg_type]),
                  !.stats   = IF counted THEN RecordStat(@, msg_type, t_now) ELSE @,
                  !.msg_pos = 0,
                  !.msg_target = 0]

\* mutant: msg_target keeps its value when a frame has been handled
GuiFrameDoneKeepTarget(g, t_now) ==
    LET frame    == Take(g.msg_buf, g.msg_target)
        msg_type == analyze_rtcm_message(g.msg_buf, g.msg_target, TRUE).ret
        counted  == msg_type > 0 /\ msg_type < GUI_MAX_MSG_TYPES
    IN  [g EXCEPT !.emitted = Append(@, [data |-> frame, msg_type |-> msg_type]),
                  !.stats   = IF counted THEN RecordStat(@, msg_type, t_now) ELSE @,
                  !.msg_pos = 0]

GuiFrameDone(g, t_now) ==
    LET frame    == Take(g.msg_buf, g.msg_target)
        msg_type == analyze_rtcm_message(g.msg_buf, g.msg_target, TRUE).ret
        counted  == msg_type > 0 /\ msg_type < GUI_MAX_MSG_TYPES
    IN  [g EXCEPT !.emitted = Append(@, [data |-> frame, msg_type |-> msg_type]),
                  !.stats   = IF counted THEN RecordStat(@, msg_type, t_now) ELSE @,
                  !.msg_pos = 0,
                  !.msg_target = 0]

GuiByte(g, b, t_now) ==
    IF g.msg_pos = 0
    THEN IF b = PREAMBLE
         THEN [g EXCEPT !.msg_buf = WriteAt(@, 0, b), !.msg_pos = 1]
         ELSE g
    ELSE LET buf1 == WriteAt(g.msg_buf, g.msg_pos, b)
             pos1 == g.msg_pos + 1
             tgt1 == IF pos1 = 3 THEN MsgLength(buf1) + 6 ELSE g.msg_target
             g1   == [g EXCEPT !.msg_buf = buf1, !.msg_pos = pos1,
                               !.msg_target = tgt1]
         IN  IF pos1 = 3 /\ tgt1 > GUI_BUFFER_SIZE
             THEN [g1 EXCEPT !.msg_pos = 0, !.msg_target = 0]
             ELSE IF tgt1 > 0 /\ pos1 >= tgt1
                  THEN GuiFrameDone(g1, t_now)
                  ELSE g1

\* for (i = start; i < n; i++)
RECURSIVE GuiFeed(_, _, _)
GuiFeed(g, chunk, t_now) ==
    IF chunk = <<>> THEN g
    ELSE LET g1 == GuiByte(g, Head(chunk), t_now)
         IN  IF g1.msg_pos >= 0 THEN GuiFeed(g1, Tail(chunk), t_now) ELSE g

-----------------------------------------------------------------------------
(* Frame assembly of the CLI sessions, ntrip_handler.c 386-415 (the same   *)
(* loop at 591-639, 783-830 and 1002-1040)                                 *)

\* while (msg_buffer_len >= 3) { ... }
RECURSIVE CliExtract(_)
CliExtract(c) ==
    IF Len(c.msg_buffer) < 3 THEN c
    ELSE IF At(c.msg_buffer, 0) # PREAMBLE
         THEN CliExtract([c EXCEPT !.msg_buffer = Tail(@)])
    ELSE LET full_frame == MsgLength(c.msg_buffer) + 6
         IN  IF Len(c.msg_buffer) < full_frame THEN c
             ELSE LET r == analyze_rtcm_message(c.msg_buffer, full_frame, FALSE)
                  IN  CliExtract(
                        [c EXCEPT !.emitted = Append(@,
                                      [data |-> Take(c.msg_buffer, full_frame),
                                       msg_type |-> r.ret]),
                                  !.output = Append(@, r.out),
                                  !.msg_buffer = Drop(@, full_frame)])

\* while (buf_pos < received && buffer[buf_pos] != 0xD3) buf_pos++;
RECURSIVE SkipToPreamble(_)
SkipToPreamble(rest) ==
    IF rest = <<>> \/ Head(rest) = PREAMBLE THEN rest
    ELSE SkipToPreamble(Tail(rest))

\* mutant: one pass only, the bytes that did not fit are not looked at again
CliFeedCopyOnce(c, rest) ==
    IF rest = <<>> THEN c
    ELSE LET rest1   == IF Len(c.msg_buffer) = 0 THEN SkipToPreamble(rest) ELSE rest
             to_copy == Min(Len(rest1), BUFFER_SIZE - Len(c.msg_buffer))
         IN  IF rest1 = <<>> THEN c
             ELSE CliExtract([c EXCEPT !.msg_buffer = @ \o Take(rest1, to_copy)])

\* while (buf_pos < received) { ... }; rest is buffer[buf_pos .. received)
RECURSIVE CliFeed(_, _)
CliFeed(c, rest) ==
    IF rest = <<>> THEN c
    ELSE LET rest1   == IF Len(c.msg_buffer) = 0 THEN SkipToPreamble(rest) ELSE rest
             to_copy == Min(Len(rest1), BUFFER_SIZE - Len(c.msg_buffer))
         IN  IF rest1 = <<>> THEN c
             ELSE IF to_copy = 0 THEN [c EXCEPT !.spin = TRUE]
             ELSE LET c1 == CliExtract([c EXCEPT !.msg_buffer =
                                                  @ \o Take(rest1, to_copy)])
                  IN  IF Len(c1.msg_buffer) >= 0
                      THEN CliFeed(c1, Drop(rest1, to_copy)) ELSE c

-----------------------------------------------------------------------------
(* The framers fed from one wire stream, split into reads                  *)
FramerInit ==
    /\ stream \in Streams
    /\ rd_pos = 0
    /\ oneRead = TRUE
    /\ byteReads = TRUE
    /\ now = 0
    /\ msg_buf = <<>>
    /\ msg_pos = 0
    /\ msg_target = 0
    /\ gui_emitted = <<>>
    /\ msgStats = <<>>
    /\ msg_buffer = <<>>
    /\ cli_emitted = <<>>
    /\ cli_output = <<>>
    /\ cli_spin = FALSE
    /\ NotFramerIdle

\* mutant: the assembly state is local to one read and lost between reads
FramerRecvLocalState(n) ==
    /\ rd_pos + n <= Len(stream)
    /\ LET chunk == SubSeq(stream, rd_pos + 1, rd_pos + n)
           g == GuiFeed([msg_buf |-> msg_buf, msg_pos |-> 0,
                         msg_target |-> 0, emitted |-> gui_emitted,
                         stats |-> msgStats], chunk, now)
           c == CliFeed([msg_buffer |-> <<>>, emitted |-> cli_emitted,
                         output |-> cli_output, spin |-> cli_spin], chunk)
       IN  /\ msg_buf' = g.msg_buf
           /\ msg_pos' = g.msg_pos
           /\ msg_target' = g.msg_target
           /\ gui_emitted' = g.emitted
           /\ msgStats' = g.stats
           /\ msg_buffer' = c.msg_buffer
           /\ cli_emitted' = c.emitted
           /\ cli_output' = c.output
           /\ cli_spin' = c.spin
    /\ rd_pos' = rd_pos + n
    /\ oneRead' = (rd_pos = 0)
    /\ byteReads' = (byteReads /\ n = 1)
    /\ UNCHANGED <<stream, now>>
    /\ UNCHANGED notFramerVars

\* recv() returns n bytes; both loops process the whole chunk
FramerRecv(n) ==
    /\ rd_pos + n <= Len(stream)
    /\ LET chunk == SubSeq(stream, rd_pos + 1, rd_pos + n)
           g == GuiFeed([msg_buf |-> msg_buf, msg_pos |-> msg_pos,
                         msg_target |-> msg_target, emitted |-> gui_emitted,
                         stats |-> msgStats], chunk, now)
           c == CliFeed([msg_buffer |-> msg_buffer, emitted |-> cli_emitted,
                         output |-> cli_output, spin |-> cli_spin], chunk)
       IN  /\ msg_buf' = g.msg_buf
           /\ msg_pos' = g.msg_pos
           /\ msg_target' = g.msg_target
           /\ gui_emitted' = g.emitted
           /\ msgStats' = g.stats
           /\ msg_buffer' = c.msg_buffer
           /\ cli_emitted' = c.emitted
           /\ cli_output' = c.output
           /\ cli_spin' = c.spin
    /\ rd_pos' = rd_pos + n
    /\ oneRead' = (rd_pos = 0)
    /\ byteReads' = (byteReads /\ n = 1)
    /\ UNCHANGED <<stream, now>>
    /\ UNCHANGED notFramerVars

FramerTick ==
    /\ now < MaxTime
    /\ now' = now + 1
    /\ UNCHANGED <<stream, rd_pos, oneRead, byteReads, msg_buf, msg_pos,
                   msg_target, gui_emitted, msgStats, msg_buffer, cli_emitted,
                   cli_output, cli_spin>>
    /\ UNCHANGED notFramerVars

FramerNext ==
    \/ \E n \in (1..MaxRead) \cup {Len(stream) - rd_pos} : n >= 1 /\ FramerRecv(n)
    \/ FramerTick

SpecFramer == FramerInit /\ [][FramerNext]_vars

FramerDone == rd_pos = Len(stream)

-----------------------------------------------------------------------------
(* Reading the emitted frames *)
Datas(em) == [k \in 1..Len(em) |-> em[k].data]

ValidOnly(em) == SelectSeq(em, LAMBDA f : CrcOk(f.data))

CountType(em, t) == Len(SelectSeq(em, LAMBDA f : f.msg_type = t))

Range(sq) == { sq[k] : k \in 1..Len(sq) }

\* does a complete frame with matching CRC start at position i of s
ValidFrameAt(s, i) ==
    /\ s[i] = PREAMBLE
    /\ i + 2 <= Len(s)
    /\ LET rest == SubSeq(s, i, Len(s))
       IN  /\ MsgLength(rest) + 6 <= Len(rest)
           /\ CrcOk(rest)

\* the frames of s whose length field and CRC are self-consistent, wire order
RECURSIVE ReferenceFrames(_, _)
ReferenceFrames(s, i) ==
    IF i > Len(s) THEN <<>>
    ELSE IF ValidFrameAt(s, i)
         THEN LET n == MsgLength(SubSeq(s, i, Len(s))) + 6
              IN  <<SubSeq(s, i, i + n - 1)>> \o ReferenceFrames(s, i + n)
         ELSE ReferenceFrames(s, i + 1)

-----------------------------------------------------------------------------
(* C1: whatever the garbage before and between valid frames and however    *)
(* the stream is split into reads, the frames emitted with a matching CRC  *)
(* are exactly the self-consistent frames of the stream, in wire order,    *)
(* each once (frames emitted with the CRC flag false are not counted).     *)
C1_FramerRecovery ==
    FramerDone =>
        /\ Datas(ValidOnly(gui_emitted)) = ReferenceFrames(stream, 1)
        /\ Datas(ValidOnly(cli_emitted)) = ReferenceFrames(stream, 1)

(* C2: a valid frame alone on the wire is emitted exactly once, the same   *)
(* frame whether it arrives one byte per read, in one read or in any       *)
(* other split, by the GUI framer and by the CLI framer.                   *)
C2_PartialAssembly ==
    (FramerDone /\ stream \in {Frame1007, Frame1005}) =>
        /\ Datas(gui_emitted) = <<stream>>
        /\ Datas(cli_emitted) = <<stream>>

C2_Witness ==
    /\ FramerDone
    /\ stream = Frame1007
    /\ byteReads
    /\ ~oneRead
    /\ Datas(gui_emitted) = <<Frame1007>>
    /\ Datas(cli_emitted) = <<Frame1007>>

(* C5 as stated: every complete frame with a CRC mismatch is dispatched    *)
(* and the counter of its message type is incremented for it.              *)
C5_CrcMismatchCounted ==
    \A k \in 1..Len(gui_emitted) :
        ~CrcOk(gui_emitted[k].data) =>
            StatOf(msgStats, gui_emitted[k].msg_type).count
                = CountType(gui_emitted, gui_emitted[k].msg_type)

(* C5 amended: a complete frame with a CRC mismatch is dispatched, and the *)
(* counter of its message type is incremented for it when the type is not  *)
(* 0; frames of type 0 are dispatched but never counted.                   *)
C5_CrcMismatchCountedNonZero ==
    /\ \A k \in 1..Len(gui_emitted) :
          LET t == gui_emitted[k].msg_type
          IN  StatOf(msgStats, t).count
                  = IF t = 0 THEN 0 ELSE CountType(gui_emitted, t)
    /\ (FramerDone /\ stream = Frame1007Bad) =>
          gui_emitted = <<[data |-> Frame1007Bad, msg_type |-> 1007]>>

C5_Witness ==
    /\ FramerDone
    /\ stream = Frame1007Bad
    /\ ~CrcOk(gui_emitted[1].data)
    /\ StatOf(msgStats, 1007).count = 1

(* C6: when analyze_rtcm_message prints (suppress_output false) for a      *)
(* frame whose CRC does not match, no decoded fields are printed for it.   *)
C6_DecoderRefusesOnCrcFail ==
    \A k \in 1..Len(cli_emitted) :
        ~CrcOk(cli_emitted[k].data) => "Fields" \notin Range(cli_output[k])

(* C17 as stated: at every point of WorkerOpenStream's frame assembly,     *)
(* 0 <= msg_pos <= msg_target <= 1029.                                     *)
C17_ParserBounds ==
    /\ 0 <= msg_pos
    /\ msg_pos <= msg_target
    /\ msg_target <= 1029

(* C17 amended: 0 <= msg_pos <= 1029 and 0 <= msg_target <= 1029 at every  *)
(* point; msg_target is 0 while fewer than three bytes of a candidate are  *)
(* buffered, and from the third byte on it is the declared payload length  *)
(* plus 6, at least 6, and msg_pos < msg_target until the frame is         *)
(* complete.  No pair of length bytes declares more than 1029.             *)
C17_ParserBoundsKnownTarget ==
    /\ 0 <= msg_pos /\ msg_pos <= 1029
    /\ 0 <= msg_target /\ msg_target <= 1029
    /\ msg_pos < 3 => msg_target = 0
    /\ msg_pos >= 3 =>
           /\ msg_target = MsgLength(msg_buf) + 6
           /\ msg_pos < msg_target
    /\ \A b1 \in {0, 3, 252, 255} : \A b2 \in {0, 255} :
           MsgLength(<<PREAMBLE, b1, b2>>) + 6 <= 1029

\* a frame has been handled and the next one is partly buffered, its length
\* known
C17_Witness ==
    /\ Len(gui_emitted) >= 1
    /\ msg_pos >= 3
    /\ msg_pos < msg_target

-----------------------------------------------------------------------------
(* The session functions of ntrip_handler.c: socket life cycle.  Each action
   is one blocking call of the function together with the code that follows
   it up to the next blocking call. *)

AnalysisTime == 2     \* analysis_time, in seconds
MaxSessTime == 3      \* the clock stops here

SessKinds == {"receive_mount_table", "start_ntrip_stream",
              "start_ntrip_stream_with_filter", "analyze_message_types",
              "analyze_satellites_stream"}

\* the loops that end when analysis_time has elapsed
HasDeadline(k) == k \in {"start_ntrip_stream", "analyze_message_types",
                         "analyze_satellites_stream"}

\* the functions that check the result of sending a GGA sentence
ChecksGgaSend(k) == k \in {"start_ntrip_stream", "start_ntrip_stream_with_filter"}

\* CLOSESOCKET(sock)
CloseSocket ==
    /\ sock' = "closed"
    /\ close_count' = close_count + 1

\* return from the session function; closing says whether CLOSESOCKET precedes it
SessReturn(path, closing) ==
    /\ sess_pc' = "returned"
    /\ sess_exit' = path
    /\ IF closing THEN CloseSocket ELSE UNCHANGED <<sock, close_count>>

SessionInit ==
    /\ sess_kind \in SessKinds
    /\ sess_pc = "getaddrinfo"
    /\ sock = "none"
    /\ close_count = 0
    /\ header_skipped = FALSE
    /\ sess_now = 0
    /\ start_time = 0
    /\ last_gga_time = 0
    /\ gga_count = 0
    /\ sess_exit = "none"
    /\ NotSessIdle

\* getaddrinfo()
SessResolve(ok) ==
    /\ sess_pc = "getaddrinfo"
    /\ IF ok THEN /\ sess_pc' = "socket"
                  /\ UNCHANGED <<sock, close_count, sess_exit>>
             ELSE SessReturn("dns_failed", FALSE)
    /\ UNCHANGED <<sess_kind, header_skipped, sess_now, start_time,
                   last_gga_time, gga_count, notSessVars>>

\* socket()
SessSocket(ok) ==
    /\ sess_pc = "socket"
    /\ IF ok THEN /\ sess_pc' = "connect"
                  /\ sock' = "open"
                  /\ UNCHANGED <<close_count, sess_exit>>
             ELSE SessReturn("socket_failed", FALSE)
    /\ UNCHANGED <<sess_kind, header_skipped, sess_now, start_time,
                   last_gga_time, gga_count, notSessVars>>

\* connect()
SessConnect(ok) ==
    /\ sess_pc = "connect"
    /\ IF ok THEN /\ sess_pc' = "send_request"
                  /\ UNCHANGED <<sock, close_count, sess_exit>>
             ELSE SessReturn("connect_failed", TRUE)
    /\ UNCHANGED <<sess_kind, header_skipped, sess_now, start_time,
                   last_gga_time, gga_count, notSessVars>>

\* send() of the HTTP request, then the initialisation of the loop's locals
SessSendRequest(ok) ==
    /\ sess_pc = "send_request"
    /\ IF ok \/ sess_kind = "analyze_satellites_stream"
       THEN /\ sess_pc' = IF sess_kind = "receive_mount_table" THEN "recv" ELSE "loop"
            /\ start_time' = sess_now
            /\ last_gga_time' = sess_now
            /\ UNCHANGED <<sock, close_count, sess_exit>>
       ELSE /\ SessReturn("request_failed", sess_kind # "analyze_message_types")
            /\ UNCHANGED <<start_time, last_gga_time>>
    /\ UNCHANGED <<sess_kind, header_skipped, sess_now, gga_count, notSessVars>>

\* the loop condition of the streaming functions
SessLoopHead ==
    /\ sess_pc = "loop"
    /\ IF HasDeadline(sess_kind) /\ ~(sess_now - start_time < AnalysisTime)
       THEN SessReturn("normal_end", TRUE)
       ELSE /\ sess_pc' = "recv"
            /\ UNCHANGED <<sock, close_count, sess_exit>>
    /\ UNCHANGED <<sess_kind, header_skipped, sess_now, start_time,
                   last_gga_time, gga_count, notSessVars>>

\* recv() in a streaming function, the GGA sentence and the header skip
SessRecv(r, gga_ok) ==
    /\ sess_pc = "recv"
    /\ sess_kind # "receive_mount_table"
    /\ LET due == sess_now - last_gga_time >= 1
       IN  IF r \in {"closed", "error"}
           THEN /\ SessReturn(IF r = "closed" THEN "server_close" ELSE "recv_error", TRUE)
                /\ UNCHANGED <<header_skipped, last_gga_time, gga_count>>
           ELSE /\ gga_count' = IF due THEN gga_count + 1 ELSE gga_count
                /\ IF due /\ ~gga_ok /\ ChecksGgaSend(sess_kind)
                   THEN /\ SessReturn("gga_failed", TRUE)
                        /\ UNCHANGED <<header_skipped, last_gga_time>>
                   ELSE /\ last_gga_time' = IF due THEN sess_now ELSE last_gga_time
                        /\ header_skipped' = (header_skipped \/ r = "header_end")
                        /\ sess_pc' = "loop"
                        /\ UNCHANGED <<sock, close_count, sess_exit>>
    /\ UNCHANGED <<sess_kind, sess_now, start_time, notSessVars>>

\* recv() in receive_mount_table and the growth of the table
SessRecvTable(r) ==
    /\ sess_pc = "recv"
    /\ sess_kind = "receive_mount_table"
    /\ IF r = "data"
       THEN UNCHANGED <<sess_pc, sock, close_count, sess_exit>>
       ELSE SessReturn(CASE r = "closed" -> "server_close"
                         [] r = "error" -> "recv_error"
                         [] r = "nomem" -> "realloc_failed"
                         [] OTHER -> "normal_end", TRUE)
    /\ UNCHANGED <<sess_kind, header_skipped, sess_now, start_time,
                   last_gga_time, gga_count, notSessVars>>

\* a second passes
SessTick ==
    /\ sess_pc # "returned"
    /\ sess_now < MaxSessTime
    /\ sess_now' = sess_now + 1
    /\ UNCHANGED <<sess_kind, sess_pc, sock, close_count, header_skipped,
                   start_time, last_gga_time, gga_count, sess_exit, notSessVars>>

SessionNext ==
    \/ \E ok \in BOOLEAN : SessResolve(ok)
    \/ \E ok \in BOOLEAN : SessSocket(ok)
    \/ \E ok \in BOOLEAN : SessConnect(ok)
    \/ \E ok \in BOOLEAN : SessSendRequest(ok)
    \/ SessLoopHead
    \/ \E r \in {"closed", "error", "header_part", "header_end", "data"} :
          \E gga_ok \in BOOLEAN : SessRecv(r, gga_ok)
    \/ \E r \in {"closed", "error", "nomem", "data", "end_marker"} : SessRecvTable(r)
    \/ SessTick

SpecSession == SessionInit /\ [][SessionNext]_vars

(* C4: every session function closes the socket it opened exactly once on
   every exit path after the socket was created: whenever the function has
   returned and a socket had been created, CLOSESOCKET was called exactly
   once, and it is never called more than once. *)
C4_SocketClosedOnce ==
    /\ close_count <= 1
    /\ (sess_pc = "returned" /\ sock # "none") => close_count = 1

(* C13: while a streaming function runs, a GGA sentence goes out once per  *)
(* second: whenever the function is waiting in recv(), fewer than two      *)
(* seconds have passed since the last GGA sentence was sent (or since the  *)
(* read loop was set up).                                                  *)
C13_GgaOncePerSecond ==
    (sess_kind # "receive_mount_table" /\ sess_pc = "recv") =>
        sess_now - last_gga_time <= 1

\* now - last_gga_time >= 1
GgaDue == sess_now - last_gga_time >= 1

(* C14: a failed send() of the stream request, or of a GGA sentence that   *)
(* is due after a successful recv(), makes the streaming function return:  *)
(* it does not go back to its read loop.                                   *)
C14_SendFailureFatal ==
    [][ ( \/ (sess_kind # "receive_mount_table" /\ SessSendRequest(FALSE))
          \/ \E r \in {"header_part", "header_end", "data"} :
                 GgaDue /\ SessRecv(r, FALSE) )
        => sess_pc' = "returned" ]_vars

-----------------------------------------------------------------------------
(* The GUI: the UI thread (gui_events.c, gui_main.c) and the worker threads
   it creates (gui_thread.c).  A worker action is one blocking call of the
   worker with the code that follows it; a UI action is one handler.  The
   frames of one connection all carry the same message type T, 0 < T < 4096. *)

Alive(w) == w_kind[w] # "none" /\ w_pc[w] # "exited"

\* the worker is inside while (!state->bStopRequested) { ... }
InReadLoop(w) == w_kind[w] = "stream" /\ w_pc[w] \in {"loop", "recv", "stat"}

\* HeapAlloc(GetProcessHeap(), 0, sizeof(RtcmRawMsg))
HeapAlloc(h, id) == [h EXCEPT !.live = @ \cup {id}]

\* HeapFree(GetProcessHeap(), 0, raw)
HeapFree(h, id) ==
    IF id \in h.live THEN [h EXCEPT !.live = @ \ {id}] ELSE [h EXCEPT !.fault = TRUE]

\* PostMessage(state->hMain, ...): the message is appended unless the call fails
PostMessage(q, msg, ok) == IF ok THEN Append(q, msg) ELSE q

Msg(kind, w, f, raw) == [m |-> kind, w |-> w, f |-> f, raw |-> raw]

\* mutant: the worker returns without posting WM_APP_STREAM_DONE
WkFinishSilent(w) ==
    /\ w_pc' = [w_pc EXCEPT ![w] = "exited"]
    /\ UNCHANGED queue

\* the worker posts WM_APP_STREAM_DONE and returns
WkFinish(w) ==
    /\ w_pc' = [w_pc EXCEPT ![w] = "exited"]
    /\ queue' = PostMessage(queue, Msg("DONE", w, 0, 0), TRUE)

\* recv() calls completed while the flag is set; the count stops at 2
CountRecv(w) ==
    w_recv_since_stop' = [w_recv_since_stop EXCEPT
                            ![w] = IF bStopRequested /\ @ < 2 THEN @ + 1 ELSE @]

GuiInit ==
    /\ GuiIdle
    /\ NotGuiIdle

\* getaddrinfo(), socket(), connect(), the receive timeout, send() of the
\* request: the worker touches no shared state between these calls; after
\* each failure it posts the completion message and returns
WkConnect(w, outcome) ==
    /\ w_kind[w] = "stream" /\ w_pc[w] = "connect"
    /\ IF outcome = "ok"
       THEN /\ w_pc' = [w_pc EXCEPT ![w] = "loop"]
            /\ UNCHANGED queue
       ELSE WkFinish(w)
    /\ UNCHANGED <<w_kind, w_header_done, w_frames, frames_left,
                   w_recv_since_stop,
                   bWorkerRunning, bStopRequested, hWorkerThread, ui_pc, hDetail,
                   lvRow, heap, last_stat, last_raw, notGuiVars>>

\* mutant: the loop goes on to the next recv() without looking at the flag
WkLoopHeadNoPoll(w) ==
    /\ w_kind[w] = "stream" /\ w_pc[w] = "loop"
    /\ w_pc' = [w_pc EXCEPT ![w] = "recv"]
    /\ UNCHANGED <<queue, w_kind, w_header_done, w_frames, frames_left,
                   w_recv_since_stop,
                   bWorkerRunning, bStopRequested, hWorkerThread, ui_pc, hDetail,
                   lvRow, heap, last_stat, last_raw, notGuiVars>>

\* while (!state->bStopRequested); after the loop closesocket and the
\* completion message
WkLoopHead(w) ==
    /\ w_kind[w] = "stream" /\ w_pc[w] = "loop"
    /\ IF bStopRequested
       THEN WkFinish(w)
       ELSE /\ w_pc' = [w_pc EXCEPT ![w] = "recv"]
            /\ UNCHANGED queue
    /\ UNCHANGED <<w_kind, w_header_done, w_frames, frames_left,
                   w_recv_since_stop,
                   bWorkerRunning, bStopRequested, hWorkerThread, ui_pc, hDetail,
                   lvRow, heap, last_stat, last_raw, notGuiVars>>

RecvResults == {"closed", "error", "timeout", "header_rejected", "header_ok",
                "partial", "frame"}

\* recv() returns; the header is skipped, the bytes are framed, and when a
\* frame is complete the update of msgStats[T] begins
WkRecv(w, r) ==
    /\ w_kind[w] = "stream" /\ w_pc[w] = "recv"
    /\ r \in {"header_rejected", "header_ok"} => ~w_header_done[w]
    /\ r = "frame" => w_header_done[w] /\ frames_left > 0
    /\ CountRecv(w)
    /\ CASE r \in {"closed", "error", "header_rejected"} ->
              /\ WkFinish(w)
              /\ UNCHANGED <<w_header_done, w_frames, frames_left>>
         [] r = "header_ok" ->
              /\ w_header_done' = [w_header_done EXCEPT ![w] = TRUE]
              /\ w_pc' = [w_pc EXCEPT ![w] = "loop"]
              /\ UNCHANGED <<queue, w_frames, frames_left>>
         [] r = "frame" ->
              /\ w_frames' = [w_frames EXCEPT ![w] = @ + 1]
              /\ frames_left' = frames_left - 1
              /\ w_pc' = [w_pc EXCEPT ![w] = "stat"]
              /\ UNCHANGED <<queue, w_header_done>>
         [] OTHER ->
              /\ w_pc' = [w_pc EXCEPT ![w] = "loop"]
              /\ UNCHANGED <<queue, w_header_done, w_frames, frames_left>>
    /\ UNCHANGED <<w_kind, bWorkerRunning, bStopRequested, hWorkerThread, ui_pc,
                   hDetail, lvRow, heap, last_stat, last_raw, notGuiVars>>

\* the rest of the update of msgStats[T] and satStats, the two notifications
\* (one queue entry stands for the pair),
\* and the raw copy of the frame when a detail window is open
WkStatEnd(w, raw) ==
    /\ w_kind[w] = "stream" /\ w_pc[w] = "stat"
    /\ LET f  == w_frames[w]
           q2 == PostMessage(queue, Msg("STAT", w, f, 0), TRUE)
           id == <<w, f>>
       IN  IF hDetail /\ raw # "no_alloc"
           THEN /\ heap' = IF raw = "ok" THEN HeapAlloc(heap, id)
                                       ELSE HeapFree(HeapAlloc(heap, id), id)
                /\ queue' = PostMessage(q2, Msg("RAW", w, f, id), raw = "ok")
           ELSE /\ queue' = q2
                /\ UNCHANGED heap
    /\ w_pc' = [w_pc EXCEPT ![w] = "loop"]
    /\ UNCHANGED <<w_kind, w_header_done, w_frames, frames_left,
                   w_recv_since_stop,
                   bWorkerRunning, bStopRequested, hWorkerThread, ui_pc, hDetail,
                   lvRow, last_stat, last_raw, notGuiVars>>

\* WorkerGetMountpoints: receive_mount_table() returns, the result is posted
WkMountFetch(w) ==
    /\ w_kind[w] = "mount" /\ w_pc[w] = "fetch"
    /\ w_pc' = [w_pc EXCEPT ![w] = "exited"]
    /\ queue' = PostMessage(queue, Msg("MOUNT", w, 0, 0), TRUE)
    /\ UNCHANGED <<w_kind, w_header_done, w_frames, frames_left,
                   w_recv_since_stop,
                   bWorkerRunning, bStopRequested, hWorkerThread, ui_pc, hDetail,
                   lvRow, heap, last_stat, last_raw, notGuiVars>>

\* the thread CreateThread starts next
FreeSlots == {w \in Workers : w_kind[w] = "none"}
NextSlot == CHOOSE w \in FreeSlots : \A v \in FreeSlots : w <= v

\* the common part of OnOpenStream and OnGetMountpoints: the guard on
\* bWorkerRunning, the two flags, CreateThread
StartWorker(kind, first_pc, thread_ok) ==
    /\ ui_pc = "idle"
    /\ ~bWorkerRunning
    /\ FreeSlots # {}
    /\ bStopRequested' = FALSE
    /\ IF thread_ok
       THEN /\ bWorkerRunning' = TRUE
            /\ hWorkerThread' = NextSlot
            /\ w_kind' = [w_kind EXCEPT ![NextSlot] = kind]
            /\ w_pc' = [w_pc EXCEPT ![NextSlot] = first_pc]
       ELSE /\ bWorkerRunning' = FALSE
            /\ hWorkerThread' = 0
            /\ UNCHANGED <<w_kind, w_pc>>

\* the Open Stream button
OnOpenStream(thread_ok) ==
    /\ StartWorker("stream", "connect", thread_ok)
    /\ lvRow' = FALSE
    /\ UNCHANGED <<w_header_done, w_frames, frames_left,
                   w_recv_since_stop, ui_pc, hDetail,
                   queue, heap, last_stat, last_raw, notGuiVars>>

\* the Get Mountpoints button
OnGetMountpoints(thread_ok) ==
    /\ StartWorker("mount", "fetch", thread_ok)
    /\ UNCHANGED <<w_header_done, w_frames, frames_left,
                   w_recv_since_stop, ui_pc, hDetail,
                   lvRow, queue, heap, last_stat, last_raw, notGuiVars>>

\* the Close Stream button, up to WaitForSingleObject
OnCloseStream ==
    /\ ui_pc = "idle"
    /\ bWorkerRunning
    /\ hDetail' = FALSE
    /\ bStopRequested' = TRUE
    /\ w_recv_since_stop' = [w \in Workers |-> 0]
    /\ IF hWorkerThread # 0
       THEN /\ ui_pc' = "wait"
            /\ UNCHANGED bWorkerRunning
       ELSE /\ bWorkerRunning' = FALSE
            /\ UNCHANGED ui_pc
    /\ UNCHANGED <<w_kind, w_pc, w_header_done, w_frames, frames_left, hWorkerThread, lvRow,
                   queue, heap, last_stat, last_raw, notGuiVars>>

\* WaitForSingleObject(hWorkerThread, 3000) can run into its timeout only
\* while the thread is not in the read loop, whose recv() returns after 200 ms
WaitCanTimeOut(w) == ~InReadLoop(w)

\* WaitForSingleObject returns, the rest of OnCloseStream
OnCloseStreamWaitEnds ==
    /\ ui_pc = "wait"
    /\ ~Alive(hWorkerThread) \/ WaitCanTimeOut(hWorkerThread)
    /\ hWorkerThread' = 0
    /\ bWorkerRunning' = FALSE
    /\ ui_pc' = "idle"
    /\ UNCHANGED <<w_kind, w_pc, w_header_done, w_frames, frames_left,
                   w_recv_since_stop,
                   bStopRequested, hDetail, lvRow, queue, heap, last_stat,
                   last_raw, notGuiVars>>

\* double click on the row of T in the statistics list view
OnOpenDetail ==
    /\ ui_pc = "idle"
    /\ lvRow
    /\ ~hDetail
    /\ hDetail' = TRUE
    /\ UNCHANGED <<w_kind, w_pc, w_header_done, w_frames, frames_left,
                   w_recv_since_stop,
                   bWorkerRunning, bStopRequested, hWorkerThread, ui_pc, lvRow,
                   queue, heap, last_stat, last_raw, notGuiVars>>

\* mutant: the message loop takes the newest message first
GetMessageNewest(q) == [msg |-> q[Len(q)], rest |-> SubSeq(q, 1, Len(q) - 1)]

\* GetMessage in the message loop: the oldest posted message
GetMessage(q) == [msg |-> Head(q), rest |-> Tail(q)]

\* the UI thread is in its message loop and the next message is of this kind
Dispatch(kind) ==
    /\ ui_pc = "idle"
    /\ queue # <<>>
    /\ GetMessage(queue).msg.m = kind
    /\ queue' = GetMessage(queue).rest

\* WM_APP_STAT_UPDATE and the WM_APP_SAT_UPDATE posted right after it:
\* OnStatUpdate and OnSatUpdate read msgStats[T] and satStats
OnStatUpdate ==
    /\ Dispatch("STAT")
    /\ lvRow' = TRUE
    /\ last_stat' = [last_stat EXCEPT ![GetMessage(queue).msg.w] = GetMessage(queue).msg.f]
    /\ UNCHANGED <<w_kind, w_pc, w_header_done, w_frames, frames_left,
                   w_recv_since_stop,
                   bWorkerRunning, bStopRequested, hWorkerThread, ui_pc, hDetail,
                   heap, last_raw, notGuiVars>>

\* mutant: the raw message is freed only when it was shown
FreeRawMsgIfShown(h, id, shown) == IF shown THEN HeapFree(h, id) ELSE h

\* the end of the WM_APP_MSG_RAW handler: always free the raw message
FreeRawMsg(h, id, shown) == HeapFree(h, id)

\* WM_APP_MSG_RAW: decode for the detail window if it is open, free the copy
OnMsgRaw ==
    /\ Dispatch("RAW")
    /\ LET msg == GetMessage(queue).msg
       IN  /\ last_raw' = IF hDetail THEN [last_raw EXCEPT ![msg.w] = msg.f]
                                     ELSE last_raw
           /\ heap' = FreeRawMsg(heap, msg.raw, hDetail)
    /\ UNCHANGED <<w_kind, w_pc, w_header_done, w_frames, frames_left,
                   w_recv_since_stop,
                   bWorkerRunning, bStopRequested, hWorkerThread, ui_pc, hDetail,
                   lvRow, last_stat, notGuiVars>>

\* WM_APP_STREAM_DONE: OnStreamDone
OnStreamDone ==
    /\ Dispatch("DONE")
    /\ hDetail' = FALSE
    /\ bWorkerRunning' = FALSE
    /\ hWorkerThread' = 0
    /\ UNCHANGED <<w_kind, w_pc, w_header_done, w_frames, frames_left,
                   w_recv_since_stop,
                   bStopRequested, ui_pc, lvRow, heap, last_stat, last_raw,
                   notGuiVars>>

\* WM_APP_MOUNT_RESULT
OnMountResult ==
    /\ Dispatch("MOUNT")
    /\ bWorkerRunning' = FALSE
    /\ hWorkerThread' = 0
    /\ UNCHANGED <<w_kind, w_pc, w_header_done, w_frames, frames_left,
                   w_recv_since_stop,
                   bStopRequested, ui_pc, hDetail, lvRow, heap, last_stat,
                   last_raw, notGuiVars>>

\* the steps of one worker inside its read loop
WkLoopStep(w) ==
    \/ WkLoopHead(w)
    \/ \E r \in RecvResults : WkRecv(w, r)
    \/ \E raw \in {"ok", "no_alloc", "post_failed"} : WkStatEnd(w, raw)

WorkerNext(w) ==
    \/ \E outcome \in {"dns_failed", "socket_failed", "connect_failed",
                      "send_failed", "ok"} : WkConnect(w, outcome)
    \/ WkLoopStep(w)
    \/ WkMountFetch(w)

UiNext ==
    \/ \E ok \in BOOLEAN : OnOpenStream(ok)
    \/ \E ok \in BOOLEAN : OnGetMountpoints(ok)
    \/ OnCloseStream
    \/ OnCloseStreamWaitEnds
    \/ OnOpenDetail
    \/ OnStatUpdate
    \/ OnMsgRaw
    \/ OnStreamDone
    \/ OnMountResult

GuiNext == UiNext \/ \E w \in Workers : WorkerNext(w)

SpecGui == GuiInit /\ [][GuiNext]_vars

RawInQueue(id) == {i \in 1..Len(queue) : queue[i].m = "RAW" /\ queue[i].raw = id}

(* C3: once bStopRequested is set for a running streaming session, the
   session leaves its read loop and returns after at most one more recv()
   has completed: no worker completes a second recv() while the flag is set,
   and a worker that evaluates the loop condition while the flag is set
   leaves the loop and terminates. *)
C3_CancelLeavesLoop ==
    /\ [](\A w \in Workers : w_recv_since_stop[w] <= 1)
    /\ [][\A w \in Workers :
            (bStopRequested /\ w_pc[w] = "loop" /\ w_pc'[w] # "loop")
                => w_pc'[w] = "exited"]_vars

\* a streaming worker has completed one recv() after the flag was set and has
\* then returned
C3_Witness ==
    \E w \in Workers :
        /\ w_kind[w] = "stream"
        /\ bStopRequested
        /\ w_recv_since_stop[w] = 1
        /\ ~Alive(w)

(* C7: while a streaming session runs, msgStats and satStats are read and
   written only by the session thread: the UI thread never reads them while
   a worker is in the middle of a statistics update, and no two workers are
   in the middle of one at the same time. *)
C7_StatsSessionLocal ==
    /\ [][OnStatUpdate => \A w \in Workers : w_pc[w] # "stat"]_vars
    /\ [](Cardinality({w \in Workers : w_pc[w] = "stat"}) <= 1)

(* C8: every raw-frame buffer is owned by exactly one party until it is freed
   exactly once: a buffer that is not yet freed is referenced by exactly one
   queued WM_APP_MSG_RAW message, every queued WM_APP_MSG_RAW message
   references a buffer that is not yet freed, and no buffer is freed twice. *)
C8_RawBuffersOwned ==
    /\ ~heap.fault
    /\ \A id \in heap.live : Cardinality(RawInQueue(id)) = 1
    /\ \A i \in 1..Len(queue) : queue[i].m = "RAW" => queue[i].raw \in heap.live

\* the consumer has handled a raw-frame buffer and the buffer is freed
C8_Witness ==
    \E w \in Workers : last_raw[w] > 0 /\ <<w, last_raw[w]>> \notin heap.live

(* C9: at any time at most one worker thread is alive. *)
C9_SingleWorker == Cardinality({w \in Workers : Alive(w)}) <= 1

(* C10: statistics updates and raw frames reach the consumer in the order in
   which their frames arrived on the wire: for every connection, the frame
   number of the update shown last and of the raw frame handled last never
   goes back. *)
C10_WireOrder ==
    [][\A w \in Workers : /\ last_stat'[w] >= last_stat[w]
                          /\ last_raw'[w] >= last_raw[w]]_vars

\* the second frame of a connection has been shown and forwarded
C10_Witness ==
    \E w \in Workers : last_stat[w] >= 2 /\ last_raw[w] >= 2

-----------------------------------------------------------------------------
(* The response header.  A stream function reads the caster's response     *)
(* with recv() and skips everything up to the first empty line before it   *)
(* hands bytes to its framing loop.                                        *)

MaxChunk == 32            \* the largest number of bytes one recv() returns

SizeofHeaderBuf == 4096   \* sizeof(header_buf)

CRLFCRLF == <<13, 10, 13, 10>>      \* "\r\n\r\n"
Str200   == <<50, 48, 48>>          \* "200"
StrICY   == <<73, 67, 89>>          \* "ICY"
StrHTTP  == <<72, 84, 84, 80, 47>>  \* "HTTP/"

\* the responses a caster may give, as bytes
IcyOk      == <<73, 67, 89, 32, 50, 48, 48, 32, 79, 75>> \o CRLFCRLF
HttpOk     == <<72, 84, 84, 80, 47, 49, 46, 49, 32, 50, 48, 48, 32, 79, 75>>
                  \o CRLFCRLF
Http401    == <<72, 84, 84, 80, 47, 49, 46, 49, 32, 52, 48, 49, 32, 78, 111>>
                  \o CRLFCRLF
Icy401     == <<73, 67, 89, 32, 52, 48, 49, 32, 78, 111>> \o CRLFCRLF
\* "HTTP/1.1 404 NF\r\nAge: 200\r\n\r\n"
Http404Age == <<72, 84, 84, 80, 47, 49, 46, 49, 32, 52, 48, 52, 32, 78, 70,
                13, 10, 65, 103, 101, 58, 32, 50, 48, 48>> \o CRLFCRLF
\* "HTTP/1.1 200 OK\r\n" and then a header line that does not end
EndlessHeader ==
    <<72, 84, 84, 80, 47, 49, 46, 49, 32, 50, 48, 48, 32, 79, 75, 13, 10>>
        \o [i \in 1..SizeofHeaderBuf |-> 65]

Wires ==
    {h \o b : h \in {IcyOk, HttpOk, Http401, Icy401, Http404Age},
              b \in {<<>>, Frame1005}}
        \cup {EndlessHeader}

HdrKinds == {"WorkerOpenStream", "analyze_message_types"}

\* a C string: the bytes before the first 0
CStr(buf) ==
    LET z == {i \in 1..Len(buf) : buf[i] = 0}
    IN  IF z = {} THEN buf
        ELSE Take(buf, (CHOOSE i \in z : \A j \in z : i <= j) - 1)

\* strstr(): offset of the first occurrence of needle, -1 for NULL
strstr(haystack, needle) ==
    LET h == CStr(haystack)
        occ == {i \in 0..(Len(h) - Len(needle)) :
                   \A k \in 1..Len(needle) : h[i + k] = needle[k]}
    IN  IF occ = {} THEN -1 ELSE CHOOSE i \in occ : \A j \in occ : i <= j

\* WorkerOpenStream: the loop over recv_buf[i .. stop) while the header is
\* not done; st is [header_buf, header_done, start, rejected, i]
RECURSIVE GuiHeaderRun(_, _, _)
GuiHeaderRun(st, recv_buf, stop) ==
    IF st.i >= stop \/ st.header_done THEN st
    ELSE
        LET i  == st.i
            hb == IF Len(st.header_buf) < SizeofHeaderBuf - 1
                  THEN Append(st.header_buf, At(recv_buf, i))
                  ELSE st.header_buf
            header_pos == Len(hb)
            found == /\ header_pos >= 4
                     /\ SubSeq(hb, header_pos - 3, header_pos) = CRLFCRLF
        IN  IF found
            THEN [header_buf |-> hb, header_done |-> TRUE, start |-> i + 1,
                  rejected |-> /\ strstr(hb, Str200) = -1
                               /\ strstr(hb, StrICY) = -1,
                  i |-> i]
            ELSE GuiHeaderRun([st EXCEPT !.header_buf = hb, !.i = i + 1],
                              recv_buf, stop)

\* the same loop over recv_buf[st.i .. stop), taken 16 bytes at a time
RECURSIVE GuiHeaderBlocks(_, _, _)
GuiHeaderBlocks(st, recv_buf, stop) ==
    IF st.i >= stop \/ st.header_done THEN st
    ELSE LET r == GuiHeaderRun(st, recv_buf, Min(st.i + 16, stop))
         IN  IF r.i >= 0 THEN GuiHeaderBlocks(r, recv_buf, stop) ELSE st

\* for (i = 0; i < n && !header_done; i++), taken 256 bytes at a time
RECURSIVE GuiHeaderLoop(_, _, _)
GuiHeaderLoop(st, recv_buf, i) ==
    IF i >= Len(recv_buf) \/ st.header_done THEN st
    ELSE LET r == GuiHeaderBlocks([header_buf |-> st.header_buf,
                                   header_done |-> st.header_done,
                                   start |-> st.start, rejected |-> st.rejected,
                                   i |-> i],
                                  recv_buf, Min(i + 256, Len(recv_buf)))
         IN  IF r.i >= 0
             THEN GuiHeaderLoop([header_buf |-> r.header_buf,
                                 header_done |-> r.header_done,
                                 start |-> r.start, rejected |-> r.rejected],
                                recv_buf, r.i)
             ELSE st

\* one pass of WorkerOpenStream's loop after recv() returned recv_buf
GuiHeaderRecv(recv_buf) ==
    /\ buf_top' = IF Len(recv_buf) - 1 > buf_top THEN Len(recv_buf) - 1 ELSE buf_top
    /\ IF header_done
       THEN /\ hdr_fed' = hdr_fed \o recv_buf
            /\ UNCHANGED <<header_buf, header_done, hdr_exit>>
       ELSE
        LET st == GuiHeaderLoop([header_buf |-> header_buf,
                                 header_done |-> FALSE, start |-> 0,
                                 rejected |-> FALSE], recv_buf, 0)
        IN  /\ header_buf' = st.header_buf
            /\ header_done' = st.header_done
            /\ hdr_exit' = IF st.rejected THEN "rejected" ELSE "none"
            /\ hdr_fed' = IF st.header_done /\ ~st.rejected
                          THEN hdr_fed \o Drop(recv_buf, st.start)
                          ELSE hdr_fed

\* one pass of a CLI stream loop after recv() returned buffer
CliHeaderRecv(buffer) ==
    /\ UNCHANGED <<header_buf, hdr_exit>>
    /\ LET received == Len(buffer)
           \* recv() writes buffer[0 .. received), and while the header is
           \* being skipped: buffer[received] = '\0'
           top == IF header_done THEN received - 1 ELSE received
       IN  buf_top' = IF top > buf_top THEN top ELSE buf_top
    /\ IF header_done
       THEN /\ hdr_fed' = hdr_fed \o buffer
            /\ UNCHANGED header_done
       ELSE LET ptr == strstr(buffer, CRLFCRLF)
            IN  IF ptr # -1
                THEN /\ hdr_fed' = hdr_fed \o Drop(buffer, ptr + 4)
                     /\ header_done' = TRUE
                ELSE UNCHANGED <<hdr_fed, header_done>>

HeaderInit ==
    /\ wire \in Wires
    /\ wire_pos = 0
    /\ hdr_kind \in HdrKinds
    /\ header_buf = <<>>
    /\ header_done = FALSE
    /\ hdr_exit = "none"
    /\ hdr_fed = <<>>
    /\ buf_top = -1
    /\ NotHdrIdle

\* recv() returns the next n bytes of the response
HdrRecv(n) ==
    /\ hdr_exit = "none"
    /\ n >= 1
    /\ wire_pos + n <= Len(wire)
    /\ wire_pos' = wire_pos + n
    /\ LET chunk == SubSeq(wire, wire_pos + 1, wire_pos + n)
       IN  IF hdr_kind = "WorkerOpenStream"
           THEN GuiHeaderRecv(chunk)
           ELSE CliHeaderRecv(chunk)
    /\ UNCHANGED <<wire, hdr_kind>>
    /\ UNCHANGED notHdrVars

\* recv() returns 0: the caster has sent everything and closed
HdrRecvClosed ==
    /\ hdr_exit = "none"
    /\ wire_pos = Len(wire)
    /\ hdr_exit' = "closed"
    /\ UNCHANGED <<wire, wire_pos, hdr_kind, header_buf, header_done, hdr_fed,
                   buf_top>>
    /\ UNCHANGED notHdrVars

HeaderNext ==
    \/ \E n \in (1..MaxRead) \cup {Min(MaxChunk, Len(wire) - wire_pos)} :
           HdrRecv(n)
    \/ HdrRecv(BUFFER_SIZE)     \* recv() fills the whole buffer
    \/ HdrRecvClosed

SpecHeader == HeaderInit /\ [][HeaderNext]_vars

\* the status line of a response: the bytes before the first CR
StatusLine(w) ==
    LET cr == {i \in 1..Len(w) : w[i] = 13}
    IN  IF cr = {} THEN w
        ELSE Take(w, (CHOOSE i \in cr : \A j \in cr : i <= j) - 1)

\* the status line is "HTTP/<version> 200 ..." or "ICY 200 ..."
StatusOk(w) ==
    LET l == StatusLine(w)
        sp == {i \in 1..Len(l) : l[i] = 32}
        first == CHOOSE i \in sp : \A j \in sp : i <= j
    IN  /\ sp # {}
        /\ \/ Take(l, 5) = StrHTTP
           \/ Take(l, first - 1) = StrICY
        /\ Len(l) >= first + 3
        /\ SubSeq(l, first + 1, first + 3) = Str200
        /\ (Len(l) = first + 3 \/ l[first + 4] = 32)

(* C11: a response whose status is neither HTTP 200 nor ICY 200 makes the  *)
(* stream function leave as soon as it has parsed the header, and no byte  *)
(* of such a response reaches the framing loop.                            *)
C11_RejectNon200 ==
    ~StatusOk(wire) =>
        /\ hdr_fed = <<>>
        /\ header_done => hdr_exit = "rejected"

(* C12: when header_buf is full and later bytes of a header without an     *)
(* empty line have arrived, WorkerOpenStream has left with an error.       *)
C12_HeaderOverflowFatal ==
    ( /\ hdr_kind = "WorkerOpenStream"
      /\ ~header_done
      /\ Len(header_buf) = SizeofHeaderBuf - 1
      /\ wire_pos > Len(header_buf) ) => hdr_exit = "error"

-----------------------------------------------------------------------------
(* The message statistics.  Each time a framing loop has a complete frame  *)
(* it reads the clock, calls analyze_rtcm_message and updates the entry of *)
(* the returned message type (ntrip_handler.c 806-825; gui_thread.c        *)
(* 407-438 is the same code on GuiMsgStat).                                *)

MaxStatFrames == 4        \* frames completed during one session
MaxStatTime   == 3        \* clock ticks during one session

\* what analyze_rtcm_message returns: -1, or the 12-bit message number
StatTypes == {-1, 0, 1005, 1077}

StatsInit ==
    /\ st_now = 0
    /\ st_stats = <<>>
    /\ st_log = <<>>
    /\ NotStatIdle

\* a frame is complete and analyze_rtcm_message returns msg_type for it
StatFrame(msg_type) ==
    /\ Len(st_log) < MaxStatFrames
    /\ st_log' = Append(st_log, [msg_type |-> msg_type, time |-> st_now])
    /\ st_stats' = IF msg_type > 0 /\ msg_type < MAX_MSG_TYPES
                   THEN RecordStat(st_stats, msg_type, st_now)
                   ELSE st_stats
    /\ UNCHANGED st_now
    /\ UNCHANGED notStatVars

\* the clock advances
StatTick ==
    /\ st_now < MaxStatTime
    /\ st_now' = st_now + 1
    /\ UNCHANGED <<st_stats, st_log>>
    /\ UNCHANGED notStatVars

StatsNext ==
    \/ \E msg_type \in StatTypes : StatFrame(msg_type)
    \/ StatTick

SpecStats == StatsInit /\ [][StatsNext]_vars

\* the message types that occur in the log or have an entry
LoggedTypes == {st_log[k].msg_type : k \in 1..Len(st_log)} \cup DOMAIN st_stats

\* the times of the frames of type t, in the order of the log
TimesOf(t) ==
    LET sel == SelectSeq(st_log, LAMBDA f : f.msg_type = t)
    IN  [k \in 1..Len(sel) |-> sel[k].time]

\* the set of differences between consecutive elements of ts
Deltas(ts) == {ts[k + 1] - ts[k] : k \in 1..(Len(ts) - 1)}

SetMin(S) == CHOOSE x \in S : \A y \in S : x <= y
SetMax(S) == CHOOSE x \in S : \A y \in S : x >= y

(* C15 as stated: for every message type T in [0, 4096), after N complete  *)
(* frames of type T the entry of T has count = N.                          *)
C15_CountIsFrames ==
    \A t \in LoggedTypes :
        (0 <= t /\ t < MAX_MSG_TYPES) =>
            StatOf(st_stats, t).count = CountType(st_log, t)

(* C15 amended: for every message type T in [1, 4096), after N complete    *)
(* frames of type T the entry of T has count = N; frames of type 0 are     *)
(* never counted and no entry is written for them.                         *)
C15_CountIsFramesNonZero ==
    \A t \in LoggedTypes :
        /\ (0 < t /\ t < MAX_MSG_TYPES) =>
              StatOf(st_stats, t).count = CountType(st_log, t)
        /\ t <= 0 => StatOf(st_stats, t) = ZeroStat

\* two frames of one type and one frame of type 0 have been completed
C15_Witness ==
    /\ CountType(st_log, 0) = 1
    /\ CountType(st_log, 1005) = 2
    /\ StatOf(st_stats, 1005).count = 2

(* C16: after N >= 2 frames of a type T at non-decreasing times t_1..t_N,  *)
(* min_dt is the least and max_dt the greatest of the differences          *)
(* t_(i+1) - t_i, and sum_dt = t_N - t_1.                                  *)
C16_DeltaStatistics ==
    \A t \in DOMAIN st_stats :
        LET ts == TimesOf(t)
        IN  Len(ts) >= 2 =>
              /\ st_stats[t].min_dt = SetMin(Deltas(ts))
              /\ st_stats[t].max_dt = SetMax(Deltas(ts))
              /\ st_stats[t].sum_dt = ts[Len(ts)] - ts[1]

(* C18: an entry with count >= 2 has min_dt <= max_dt.                     *)
C18_MinLeMax ==
    \A t \in DOMAIN st_stats :
        st_stats[t].count >= 2 => st_stats[t].min_dt <= st_stats[t].max_dt

\* three frames of one type with two different intervals between them
C18_Witness ==
    \E t \in DOMAIN st_stats :
        /\ st_stats[t].count >= 3
        /\ st_stats[t].min_dt < st_stats[t].max_dt

-----------------------------------------------------------------------------
(* The satellite summary.  analyze_satellites_stream (and the GUI worker)  *)
(* call extract_satellites with the payload of every complete frame; it    *)
(* marks the satellites of the frame's mask in the entry of the frame's    *)
(* constellation.                                                          *)

MaxSatCalls == 3          \* calls of extract_satellites during one session

MAX_GNSS          == 8
MAX_SATS_PER_GNSS == 64

\* get_bits(): bit_len bits of buf from bit start_bit on, most significant first
RECURSIVE get_bits(_, _, _)
get_bits(buf, start_bit, bit_len) ==
    IF bit_len = 0 THEN 0
    ELSE LET i    == bit_len - 1
             byte == (start_bit + i) \div 8
             bit  == 7 - ((start_bit + i) % 8)
         IN  (get_bits(buf, start_bit, i) * 2) + BitOf(At(buf, byte), bit)

get_gnss_id_from_rtcm(msg_type) ==
    IF msg_type >= 1070 /\ msg_type < 1080 THEN 1
    ELSE IF msg_type >= 1080 /\ msg_type < 1090 THEN 2
    ELSE IF msg_type >= 1090 /\ msg_type < 1100 THEN 3
    ELSE IF msg_type >= 1110 /\ msg_type < 1120 THEN 4
    ELSE IF msg_type >= 1120 /\ msg_type < 1130 THEN 5
    ELSE IF msg_type >= 1130 /\ msg_type < 1140 THEN 6
    ELSE 0

\* the search for gnss_id in summary->gnss[0 .. gnss_count): index or -1
FindGnss(sm, gnss_id) ==
    LET hits == {i \in 0..(Len(sm) - 1) : sm[i + 1].gnss_id = gnss_id}
    IN  IF hits = {} THEN -1 ELSE CHOOSE i \in hits : \A j \in hits : i <= j

\* mutant: every satellite of the mask is counted, seen before or not
RECURSIVE SatLoopCountAll(_, _, _, _)
SatLoopCountAll(e, data, s, bit) ==
    IF ~(s <= 64 /\ s <= MAX_SATS_PER_GNSS) THEN e
    ELSE LET e1 == IF get_bits(data, bit, 1) # 0
                   THEN [e EXCEPT !.sat_seen[s] = 1, !.count = @ + 1]
                   ELSE e
         IN  IF e1.count >= 0 THEN SatLoopCountAll(e1, data, s + 1, bit + 1) ELSE e

\* for (s = 1; s <= 64 && s <= MAX_SATS_PER_GNSS; ++s) { ... bit++; }
\* sat_seen[s] of the model is sat_seen[s-1] of the code
RECURSIVE SatLoop(_, _, _, _)
SatLoop(e, data, s, bit) ==
    IF ~(s <= 64 /\ s <= MAX_SATS_PER_GNSS) THEN e
    ELSE LET e1 == IF get_bits(data, bit, 1) # 0 /\ e.sat_seen[s] = 0
                   THEN [e EXCEPT !.sat_seen[s] = 1, !.count = @ + 1]
                   ELSE e
         IN  IF e1.count >= 0 THEN SatLoop(e1, data, s + 1, bit + 1) ELSE e

\* sm is summary->gnss[0 .. gnss_count); the result is the summary afterwards
extract_satellites(data, len, msg_type, sm) ==
    LET gnss_id == get_gnss_id_from_rtcm(msg_type)
        found   == FindGnss(sm, gnss_id)
        fresh   == found = -1 /\ Len(sm) < MAX_GNSS
        sm1     == IF fresh
                   THEN Append(sm, [gnss_id  |-> gnss_id,
                                    sat_seen |-> [s \in 1..MAX_SATS_PER_GNSS |-> 0],
                                    count    |-> 0])
                   ELSE sm
        idx     == IF fresh THEN Len(sm) ELSE found
    IN  IF gnss_id = 0 \/ idx = -1 THEN sm
        ELSE [sm1 EXCEPT ![idx + 1] = SatLoop(@, data, 1, 24 + 6 + 1 + 3)]

\* the byte at offset j of a payload whose bits 34 .. 97 are the mask prns
RECURSIVE MaskByte(_, _, _)
MaskByte(prns, j, k) ==
    IF k > 7 THEN 0
    ELSE (IF \E s \in prns : 33 + s = (8 * j) + (7 - k) THEN Pow2(k) ELSE 0)
             + MaskByte(prns, j, k + 1)

MaskPayload(prns) == [j \in 1..13 |-> MaskByte(prns, j - 1, 0)]

\* the payloads of the frames of a session
SatPayloads == {MaskPayload(prns) : prns \in {{}, {1}, {2}, {1, 64}}}

\* the message types of the frames of a session
SatTypes == {1005, 1077, 1087, 1127}

SatInit ==
    /\ summary = <<>>
    /\ sat_calls = 0
    /\ NotSatIdle

\* a frame of type msg_type with payload data is complete
SatFrame(msg_type, data) ==
    /\ sat_calls < MaxSatCalls
    /\ sat_calls' = sat_calls + 1
    /\ summary' = extract_satellites(data, Len(data), msg_type, summary)
    /\ UNCHANGED notSatVars

SatNext ==
    \E msg_type \in SatTypes : \E data \in SatPayloads : SatFrame(msg_type, data)

SpecSat == SatInit /\ [][SatNext]_vars

(* C19: after any sequence of extract_satellites calls, the count of every *)
(* constellation entry is the number of satellites marked in its sat_seen. *)
C19_CountIsCardinality ==
    \A i \in 1..Len(summary) :
        summary[i].count =
            Cardinality({s \in 1..MAX_SATS_PER_GNSS : summary[i].sat_seen[s] = 1})

\* three frames of one constellation, some satellite in two of their masks,
\* have marked three satellites
C19_Witness ==
    /\ sat_calls = 3
    /\ Len(summary) = 1
    /\ summary[1].gnss_id = 1
    /\ summary[1].count = 3
    /\ {s \in 1..MAX_SATS_PER_GNSS : summary[1].sat_seen[s] = 1} = {1, 2, 64}

-----------------------------------------------------------------------------
(* analyze_rtcm_message called once on a buffer and a length of the        *)
(* caller's choice: a whole frame, a frame cut short, a frame followed by  *)
(* other bytes, or bytes that are no frame.                                *)

\* the MSM7 decoders
Msm7Types == {1077, 1087, 1097, 1117, 1127, 1137}

\* the bit offsets, from the start of data, at which decode_rtcm_msm7_full
\* reads the satellite mask, the signal mask and the cell mask (payload is
\* data + 3; the header fields before the masks take 61 bits)
SatMaskBit  == 24 + 12 + 30 + 1 + 3 + 7 + 2 + 2 + 1 + 3
SigMaskBit  == SatMaskBit + 64
CellMaskBit == SigMaskBit + 32

\* for (i = 0; i < n; ++i) if ((mask >> (n-1 - i)) & 1) list[num++] = i + 1;
MaskList(data, start_bit, n) ==
    LET set_bits == {i \in 1..n : get_bits(data, start_bit + (i - 1), 1) = 1}
    IN  [ids |-> set_bits, num |-> Cardinality(set_bits)]

\* what decode_rtcm_msm7_full computes from the masks: num_sats, num_sigs,
\* the cells (s, g) with cell_mask[s][g] set, and the number of payload bits
\* it has read when it has read the last cell field
Msm7Layout(data) ==
    LET sats     == MaskList(data, SatMaskBit, 64)
        sigs     == MaskList(data, SigMaskBit, 32)
        cells    == {c \in (0..(sats.num - 1)) \X (0..(sigs.num - 1)) :
                       get_bits(data, CellMaskBit + (c[1] * sigs.num) + c[2], 1) = 1}
        num_cells == Cardinality(cells)
    IN  [sat_prns |-> sats.ids, sig_ids |-> sigs.ids,
         num_sats |-> sats.num, num_sigs |-> sigs.num,
         cells |-> cells, num_cells |-> num_cells,
         read_bits |-> (CellMaskBit - 24) + (sats.num * sigs.num)
                          + (sats.num * (8 + 4 + 10 + 14))
                          + (num_cells * (20 + 24 + 10 + 1 + 10 + 15))]

\* byte j of a buffer whose set bits are the positions in bits
RECURSIVE ByteOfBits(_, _, _)
ByteOfBits(bits, j, k) ==
    IF k > 7 THEN 0
    ELSE (IF ((8 * j) + (7 - k)) \in bits THEN Pow2(k) ELSE 0)
             + ByteOfBits(bits, j, k + 1)

\* an MSM7 payload of nbytes bytes: message number, nsat satellites, nsig
\* signals, every cell of the cell mask set, all other bits 0
MkMsm7Payload(msg_type, nsat, nsig, nbytes) ==
    LET bits == {i \in 0..11 : BitOf(msg_type, 11 - i) = 1}
                  \cup {(SatMaskBit - 24) + (i - 1) : i \in 1..nsat}
                  \cup {(SigMaskBit - 24) + (i - 1) : i \in 1..nsig}
                  \cup {(CellMaskBit - 24) + i : i \in 0..((nsat * nsig) - 1)}
    IN  [j \in 1..nbytes |-> ByteOfBits(bits, j - 1, 0)]

\* memory that happens to follow a frame in the caller's buffer
Stale(n) == [i \in 1..n |-> 0]

Msm7Short == MkFrame(MkMsm7Payload(1077, 1, 1, 20)) \o Stale(12)
Msm7Whole == MkFrame(MkMsm7Payload(1077, 1, 1, 35))
Msm7Guard == MkFrame(MkMsm7Payload(1087, 0, 0, 19))
Msm7Many  == MkFrame(MkMsm7Payload(1097, 17, 16, 54))

AnalyzeBuffers ==
    { Frame1007, Frame1005, Frame1007Bad, Frame1007 \o <<PREAMBLE, 0>>,
      <<0, 0, 0, 0, 0, 0, 0, 0>>,
      Msm7Short, Msm7Whole, Msm7Guard, Msm7Many }

AnalyzeInit ==
    /\ an_data \in AnalyzeBuffers
    /\ an_length \in 0..Len(an_data)
    /\ an_suppress \in BOOLEAN
    /\ an_called = FALSE
    /\ an_result = [ret |-> 0, out |-> <<>>]
    /\ NotAnIdle

\* list[i] of a list built from a mask: the element with i smaller ones
Nth(ids, i) == CHOOSE x \in ids : Cardinality({y \in ids : y < x}) = i

\* the loops that print the signal data: s runs over the satellites and g
\* over the signals, in mask order, and a row <<PRN, signal id>> is printed
\* for every set cell
RECURSIVE Msm7SigLoop(_, _, _, _)
Msm7SigLoop(lay, sx, gx, rows) ==
    IF gx >= lay.num_sigs THEN rows
    ELSE LET rows1 == IF <<sx, gx>> \in lay.cells
                      THEN Append(rows, <<Nth(lay.sat_prns, sx), Nth(lay.sig_ids, gx)>>)
                      ELSE rows
         IN  IF Len(rows1) >= 0 THEN Msm7SigLoop(lay, sx, gx + 1, rows1) ELSE rows

RECURSIVE Msm7PrintLoop(_, _, _)
Msm7PrintLoop(lay, sx, rows) ==
    IF sx >= lay.num_sats THEN rows
    ELSE LET rows1 == Msm7SigLoop(lay, sx, 0, rows)
         IN  IF Len(rows1) >= 0 THEN Msm7PrintLoop(lay, sx + 1, rows1) ELSE rows

Msm7Rows(data) == Msm7PrintLoop(Msm7Layout(data), 0, <<>>)

\* the call reaches decode_rtcm_msm7_full and passes its length guard
Msm7Decoded(data, length, suppress_output) ==
    /\ ~suppress_output
    /\ length >= 6
    /\ At(data, 0) = PREAMBLE
    /\ MsgTypeOf(data) \in Msm7Types
    /\ MsgLength(data) >= 20

\* fine_pr[256] ... fine_phrate[256] are written at index c for every set
\* cell: with more than 256 cells the writes leave the arrays
Msm7ArrayOverrun(data) == Msm7Layout(data).num_cells > 256

\* a write outside the arrays is undefined: the call may return as if
\* nothing had happened, or the stack of the caller is damaged
AnalyzeCall ==
    /\ ~an_called
    /\ an_called' = TRUE
    /\ LET r == analyze_rtcm_message(an_data, an_length, an_suppress)
       IN  IF Msm7Decoded(an_data, an_length, an_suppress)
                /\ Msm7ArrayOverrun(an_data)
           THEN \E ub \in {"Fields", "StackSmashed"} :
                   an_result' = [r EXCEPT !.out = <<"Header", ub>>]
           ELSE an_result' = r
    /\ UNCHANGED <<an_data, an_length, an_suppress>>
    /\ UNCHANGED notAnVars

AnalyzeNext == AnalyzeCall

SpecAnalyze == AnalyzeInit /\ [][AnalyzeNext]_vars

(* C20: analyze_rtcm_message returns -1 when the buffer starts with 0xD3   *)
(* and length is less than the declared payload length plus 6.             *)
C20_TruncatedIsFailure ==
    ( /\ an_called
      /\ an_length >= 3
      /\ At(an_data, 0) = PREAMBLE
      /\ an_length < MsgLength(an_data) + 6 ) => an_result.ret = -1

\* the payload bytes a specialised decoder reads when it prints its fields:
\* decode_rtcm_1005 reads 152 bits, decode_rtcm_msm7_full what the masks say
NeedBytes(data) ==
    IF MsgTypeOf(data) = 1005 THEN 19
    ELSE (Msm7Layout(data).read_bits + 7) \div 8

\* the call was given a whole frame: length is the declared length plus 6
WholeFrameCall ==
    /\ an_called
    /\ At(an_data, 0) = PREAMBLE
    /\ an_length = MsgLength(an_data) + 6

(* C21: when decode_rtcm_1005 or an MSM7 decoder, called for a whole       *)
(* frame, would read more payload bytes than the declared payload length,  *)
(* it prints "Payload too short" and none of its fields.                   *)
C21_ShortPayloadRefused ==
    ( /\ WholeFrameCall
      /\ ~an_suppress
      /\ MsgTypeOf(an_data) \in Msm7Types \cup {1005}
      /\ NeedBytes(an_data) > MsgLength(an_data) ) =>
           /\ "PayloadTooShort" \in Range(an_result.out)
           /\ "Fields" \notin Range(an_result.out)

(* C22: whatever the content of a whole frame, the decode call returns     *)
(* normally: it leaves the memory of its caller intact.                    *)
C22_DecodeReturnsNormally ==
    WholeFrameCall => "StackSmashed" \notin Range(an_result.out)

\* the cells the masks of a frame announce, as <<PRN, signal id>>
AnnouncedCells(data) ==
    LET sats == {i \in 1..64 : get_bits(data, SatMaskBit + (i - 1), 1) = 1}
        sigs == {i \in 1..32 : get_bits(data, SigMaskBit + (i - 1), 1) = 1}
        rank(S, x) == Cardinality({y \in S : y < x})
    IN  {c \in sats \X sigs :
            get_bits(data, CellMaskBit + (rank(sats, c[1]) * Cardinality(sigs))
                                       + rank(sigs, c[2]), 1) = 1}

(* C30: for every whole MSM7 frame that passes the length guard the        *)
(* decoder prints its fields, and the signal rows it prints are exactly    *)
(* the cells whose cell-mask bit is set, one row each, in (satellite,      *)
(* signal) order, whatever the number of cells.                            *)
C30_Msm7AllCells ==
    ( WholeFrameCall /\ Msm7Decoded(an_data, an_length, an_suppress) ) =>
        LET rows == Msm7Rows(an_data)
        IN  /\ an_result.out = <<"Header", "Fields">>
            /\ Len(rows) = Cardinality(AnnouncedCells(an_data))
            /\ Range(rows) = AnnouncedCells(an_data)
            /\ \A i \in 1..(Len(rows) - 1) :
                  \/ rows[i][1] < rows[i + 1][1]
                  \/ (rows[i][1] = rows[i + 1][1] /\ rows[i][2] < rows[i + 1][2])

-----------------------------------------------------------------------------
(* Stream format detection of the GUI worker, gui_thread.c 126-475: the    *)
(* format is pre-seeded from the sourcetable row of the mountpoint, then   *)
(* looked for in the data bytes; the framing loop runs unless a format was *)
(* detected for which decoding is not active.                              *)

FMT_NONE  == 0
FMT_RTCM3 == 1
FMT_UBX   == 2
FMT_SBF   == 3
FMT_RT27  == 4
FMT_LB2   == 5

NonRtcmFormats == {FMT_UBX, FMT_SBF, FMT_RT27, FMT_LB2}

\* what the Format and Details columns of the sourcetable row contain;
\* CONTAINS_CI(column, keyword) is membership
SourceRows == { [fmt |-> {}, det |-> {}],
                [fmt |-> {"RTCM"}, det |-> {}],
                [fmt |-> {"RAW"}, det |-> {"RT27"}],
                [fmt |-> {"RAW"}, det |-> {"LB2"}],
                [fmt |-> {"SBF", "Septentrio"}, det |-> {}],
                [fmt |-> {"UBX"}, det |-> {}] }

\* the pre-seed block: detected_format, decode_active and streamFormat
PreSeed(fmt, det) ==
    IF "RT27" \in fmt \/ "RT27" \in det
    THEN [detected_format |-> FMT_RT27, decode_active |-> TRUE, streamFormat |-> FMT_RT27]
    ELSE IF "LB2" \in fmt \/ "LB2" \in det
    THEN [detected_format |-> FMT_LB2, decode_active |-> TRUE, streamFormat |-> FMT_LB2]
    ELSE IF "SBF" \in fmt \/ "SBF" \in det \/ "Septentrio" \in fmt
    THEN [detected_format |-> FMT_SBF, decode_active |-> FALSE, streamFormat |-> FMT_SBF]
    ELSE IF "UBX" \in fmt \/ "UBX" \in det \/ "BINEX" \in fmt
    THEN [detected_format |-> FMT_UBX, decode_active |-> FALSE, streamFormat |-> FMT_UBX]
    ELSE [detected_format |-> FMT_NONE, decode_active |-> FALSE, streamFormat |-> FMT_NONE]

\* for (j = start; j < n - 1; j++): the first two-byte sync pattern
SyncScan(chunk) ==
    LET hits == {j \in 1..(Len(chunk) - 1) :
                    \/ (chunk[j] = 36 /\ chunk[j + 1] = 64)
                    \/ (chunk[j] = 181 /\ chunk[j + 1] = 98)}
    IN  IF hits = {} THEN FMT_NONE
        ELSE LET j == CHOOSE x \in hits : \A y \in hits : x <= y
             IN  IF chunk[j] = 36 THEN FMT_SBF ELSE FMT_UBX

\* the weaker patterns, looked for at the first data byte only
WeakScan(chunk) ==
    LET dataBytes == Len(chunk)
        b0 == chunk[1]
    IN  IF b0 = 16 /\ dataBytes >= 4 /\ chunk[2] # 16 /\ chunk[2] # 3
        THEN FMT_RT27
        ELSE IF b0 = 1 /\ dataBytes >= 3 /\ chunk[2] <= 128 /\ chunk[2] > 0 /\ chunk[3] < 64
        THEN FMT_LB2
        ELSE FMT_NONE

\* PHASE 1 for one chunk of data bytes
DetectFormat(chunk, det, first) ==
    IF det # FMT_NONE THEN det
    ELSE LET strong == SyncScan(chunk)
         IN  IF strong # FMT_NONE THEN strong
             ELSE IF first THEN WeakScan(chunk) ELSE FMT_NONE

\* InterlockedExchangeAdd on a LONG
LONG_MAX == 2147483647
AddLong(x, n) == IF x > LONG_MAX - n
                 THEN ((0 - LONG_MAX) - 1) + ((n - (LONG_MAX - x)) - 1)
                 ELSE x + n

SbfBlock  == <<36, 64, 0>>
UbxBlock  == <<181, 98, 1>>
Rt27Block == <<16, 87, 0, 3>>
Lb2Block  == <<1, 4, 0>>

FormatSegments == { SbfBlock, UbxBlock, Rt27Block, Lb2Block, Frame1007 }

FormatWires ==
    { Flatten(ss) : ss \in UNION { [1..k -> FormatSegments] : k \in 1..2 } }

FormatInit ==
    /\ \E row \in SourceRows :
          /\ sourceFormat = row.fmt
          /\ sourceDetails = row.det
          /\ detected_format = PreSeed(row.fmt, row.det).detected_format
          /\ decode_active = PreSeed(row.fmt, row.det).decode_active
          /\ streamFormat = PreSeed(row.fmt, row.det).streamFormat
    /\ fm_wire \in FormatWires
    /\ fm_pos = 0
    /\ first_data_check = TRUE
    /\ streamBytes = 0
    /\ fm_g = [msg_buf |-> <<>>, msg_pos |-> 0, msg_target |-> 0,
               emitted |-> <<>>, stats |-> <<>>]
    /\ fm_hDetail \in BOOLEAN
    /\ fm_raw = <<>>
    /\ NotFmtIdle

\* the frames of a list that pass msg_type > 0 && msg_type < GUI_MAX_MSG_TYPES
Counted(em) == SelectSeq(em, LAMBDA f : f.msg_type > 0 /\ f.msg_type < GUI_MAX_MSG_TYPES)

\* PHASE 1 and PHASE 2 for one chunk of data bytes: st is [detected_format,
\* decode_active, streamFormat, g], g the state of the framing loop
FormatPass(st, chunk, first) ==
    \* PHASE 1
    LET Phase1(det1) ==
            IF st.detected_format = FMT_NONE /\ det1 # FMT_NONE
            THEN [st EXCEPT !.detected_format = det1, !.decode_active = FALSE,
                            !.streamFormat = det1]
            ELSE st
        \* PHASE 2, and the confirmation of RTCM 3.x by the first counted frame
        Phase2(s1, g1) ==
            IF s1.detected_format = FMT_NONE
                 /\ Counted(SubSeq(g1.emitted, Len(st.g.emitted) + 1, Len(g1.emitted))) # <<>>
            THEN [s1 EXCEPT !.detected_format = FMT_RTCM3, !.decode_active = TRUE,
                            !.streamFormat = FMT_RTCM3, !.g = g1]
            ELSE [s1 EXCEPT !.g = g1]
        Skip(s1) ==
            IF s1.detected_format # FMT_NONE /\ ~s1.decode_active
            THEN s1
            ELSE Phase2(s1, GuiFeed(s1.g, chunk, 0))
    IN  Skip(Phase1(DetectFormat(chunk, st.detected_format, first)))

\* one pass of the receive loop after the header: recv() returns n data bytes
FormatRecv(n) ==
    /\ fm_pos + n <= Len(fm_wire)
    /\ \E chunk \in {SubSeq(fm_wire, fm_pos + 1, fm_pos + n)} :
       \E st \in {FormatPass([detected_format |-> detected_format,
                              decode_active |-> decode_active,
                              streamFormat |-> streamFormat, g |-> fm_g],
                             chunk, first_data_check)} :
           /\ streamBytes' = AddLong(streamBytes, n)
           /\ first_data_check' =
                 IF detected_format = FMT_NONE /\ SyncScan(chunk) = FMT_NONE
                 THEN FALSE ELSE first_data_check
           /\ detected_format' = st.detected_format
           /\ decode_active' = st.decode_active
           /\ streamFormat' = st.streamFormat
           /\ fm_g' = st.g
           /\ fm_raw' = IF fm_hDetail
                        THEN fm_raw \o Datas(Counted(SubSeq(st.g.emitted,
                                                            Len(fm_g.emitted) + 1,
                                                            Len(st.g.emitted))))
                        ELSE fm_raw
    /\ fm_pos' = fm_pos + n
    /\ UNCHANGED <<sourceFormat, sourceDetails, fm_wire, fm_hDetail>>
    /\ UNCHANGED notFmtVars

FormatNext ==
    \E n \in (1..MaxRead) \cup {Len(fm_wire) - fm_pos} : n >= 1 /\ FormatRecv(n)

SpecFormat == FormatInit /\ [][FormatNext]_vars

(* C23: while the worker has the stream down as UBX, Septentrio SBF,      *)
(* Trimble RT27 or Leica LB2, a pass of the receive loop hands no frame to *)
(* the analyser, records no statistics and posts no raw frame.             *)
C23_NonRtcmCountsOnly ==
    [][ (detected_format \in NonRtcmFormats) =>
            ( /\ (fm_g.emitted)' = fm_g.emitted
              /\ (fm_g.stats)' = fm_g.stats
              /\ fm_raw' = fm_raw ) ]_vars

\* the messages of worker w that are posted and not yet taken from the queue
PendingOf(q, w) == {i \in 1..Len(q) : q[i].w = w}

(* C25: when OnCloseStream has finished for a cancelled session, no        *)
(* message posted by the worker of that session (statistics update, raw    *)
(* frame, completion) is still pending in the queue of the main window.    *)
C25_DrainedBeforeClose ==
    [][ OnCloseStreamWaitEnds => PendingOf(queue', hWorkerThread) = {} ]_vars

-----------------------------------------------------------------------------
(* The read loop of receive_mount_table, ntrip_handler.c 194-229: every    *)
(* chunk recv() returns is appended to mount_table, and the loop ends when *)
(* strstr finds the end marker in the chunk, when recv() returns 0 or less,*)
(* or when realloc fails.                                                  *)

ENDSOURCETABLE == <<69, 78, 68, 83, 79, 85, 82, 67, 69, 84, 65, 66, 76, 69>>

TableRow == <<83, 84, 82, 59, 65, 13, 10>>
CRLF     == <<13, 10>>

TableWires == { TableRow \o ENDSOURCETABLE \o CRLF,
                ENDSOURCETABLE \o CRLF,
                TableRow \o TableRow,
                TableRow \o ENDSOURCETABLE \o CRLF \o TableRow }

TableInit ==
    /\ tb_wire \in TableWires
    /\ tb_pos = 0
    /\ tb_keepalive \in BOOLEAN
    /\ mount_table = <<>>
    /\ tb_exit = "none"
    /\ NotTblIdle

\* recv() returns n bytes: one pass of the while loop
TableRecv(n, realloc_ok) ==
    /\ tb_exit = "none"
    /\ n >= 1 /\ n <= BUFFER_SIZE - 1
    /\ tb_pos + n <= Len(tb_wire)
    /\ LET buffer == SubSeq(tb_wire, tb_pos + 1, tb_pos + n) \o <<0>>
       IN  IF ~realloc_ok
           THEN /\ mount_table' = <<>>
                /\ tb_exit' = "nomem"
           ELSE /\ mount_table' = mount_table \o Take(buffer, n)
                /\ tb_exit' = IF strstr(buffer, ENDSOURCETABLE) >= 0
                              THEN "marker" ELSE "none"
    /\ tb_pos' = tb_pos + n
    /\ UNCHANGED <<tb_wire, tb_keepalive>>
    /\ UNCHANGED notTblVars

\* the caster has closed the connection: recv() returns 0
TableRecvEnd ==
    /\ tb_exit = "none"
    /\ tb_pos = Len(tb_wire)
    /\ ~tb_keepalive
    /\ tb_exit' = "closed"
    /\ UNCHANGED <<tb_wire, tb_pos, tb_keepalive, mount_table>>
    /\ UNCHANGED notTblVars

TableNext ==
    \/ \E n \in (1..MaxRead) \cup {Len(tb_wire) - tb_pos}, ok \in BOOLEAN :
           TableRecv(n, ok)
    \/ TableRecvEnd

SpecTable == TableInit /\ [][TableNext]_vars

(* C24: while receive_mount_table is still reading, the end marker         *)
(* ENDSOURCETABLE has not yet appeared in the response accumulated so far: *)
(* as soon as the accumulated bytes contain it the loop has stopped,       *)
(* however the response was split across reads.                            *)
C24_StopsAtEndMarker ==
    tb_exit = "none" => strstr(mount_table, ENDSOURCETABLE) = -1

-----------------------------------------------------------------------------
(* The output sink of the decoders: rtcm3x_parser.c 25-80 (g_rtcm_strbuf,  *)
(* rtcm_set_output_buffer, rtcm_printf), the WM_APP_MSG_RAW handler of the *)
(* UI thread, gui_events.c 1448-1491, and the worker's call of             *)
(* analyze_rtcm_message, gui_thread.c 407-408.  The handler is taken one   *)
(* call at a time, so that the worker can run between any two of them.     *)

MaxSinkCalls == 2     \* handler invocations, and worker calls, in one run

\* the frames the worker completes; those with a valid type can be posted
SinkFrames == { Frame1007, Frame1005, Frame1007Bad, Msm7Whole, Msm7Many }

\* void rtcm_set_output_buffer(RtcmStrBuf *sb) { g_rtcm_strbuf = sb; }
rtcm_set_output_buffer(sb) == sb

\* rtcm_printf: where the output of one call of analyze_rtcm_message goes
SinkTarget == IF g_rtcm_strbuf # 0 /\ sb_buf = "heap" THEN "sb" ELSE "stdout"

\* mutant: the worker asks for the decoder output
WorkerSuppressOff == FALSE

\* the third argument of the worker's call of analyze_rtcm_message
WorkerSuppress == TRUE

SinkInit ==
    /\ SinkIdle
    /\ NotSinkIdle

\* the worker has a complete frame: analyze_rtcm_message(msg_buf, msg_target,
\* true, &state->config)
SkWorkerAnalyze(frame) ==
    /\ sk_ui # "killed"
    /\ sk_wk_calls < MaxSinkCalls
    /\ sk_wk_calls' = sk_wk_calls + 1
    /\ LET r == analyze_rtcm_message(frame, Len(frame), WorkerSuppress)
       IN  IF r.out # <<>>
           THEN /\ sk_log' = sk_log \cup {[thread |-> "worker", op |-> "print"]}
                /\ sb_out' = IF SinkTarget = "sb" THEN sb_out \o r.out ELSE sb_out
           ELSE UNCHANGED <<sk_log, sb_out>>
    /\ UNCHANGED <<g_rtcm_strbuf, sb_id, sb_scope, sb_buf, sk_ui, sk_raw>>
    /\ UNCHANGED notSinkVars

\* WM_APP_MSG_RAW for a type whose detail window is open:
\* RtcmStrBuf sb; rtcm_strbuf_init(&sb, 4096);
SkUiBegin(raw, malloc_ok) ==
    /\ sk_ui = "idle"
    /\ sb_id < MaxSinkCalls
    /\ LET msg_type == analyze_rtcm_message(raw, Len(raw), TRUE).ret
       IN  msg_type > 0 /\ msg_type < GUI_MAX_MSG_TYPES
    /\ sb_id' = sb_id + 1
    /\ sb_scope' = TRUE
    /\ sb_buf' = IF malloc_ok THEN "heap" ELSE "null"
    /\ sb_out' = <<>>
    /\ sk_raw' = raw
    /\ sk_ui' = "init"
    /\ UNCHANGED <<g_rtcm_strbuf, sk_wk_calls, sk_log>>
    /\ UNCHANGED notSinkVars

\* rtcm_set_output_buffer(&sb);
SkUiSetSink ==
    /\ sk_ui = "init"
    /\ g_rtcm_strbuf' = rtcm_set_output_buffer(sb_id)
    /\ sk_log' = sk_log \cup {[thread |-> "ui", op |-> "set"]}
    /\ sk_ui' = "set"
    /\ UNCHANGED <<sb_id, sb_scope, sb_buf, sb_out, sk_raw, sk_wk_calls>>
    /\ UNCHANGED notSinkVars

\* analyze_rtcm_message(raw->data, raw->length, false, &state->config);
\* a frame that overruns the cell arrays of the MSM7 decoder either comes
\* back or ends the process
SkUiDecode(outcome) ==
    /\ sk_ui = "set"
    /\ LET r  == analyze_rtcm_message(sk_raw, Len(sk_raw), FALSE)
           ub == Msm7Decoded(sk_raw, Len(sk_raw), FALSE) /\ Msm7ArrayOverrun(sk_raw)
       IN  /\ outcome = "killed" => ub
           /\ sk_ui' = IF outcome = "killed" THEN "killed" ELSE "decoded"
           /\ sk_log' = IF r.out # <<>>
                        THEN sk_log \cup {[thread |-> "ui", op |-> "print"]}
                        ELSE sk_log
           /\ sb_out' = IF SinkTarget = "sb" THEN sb_out \o r.out ELSE sb_out
    /\ UNCHANGED <<g_rtcm_strbuf, sb_id, sb_scope, sb_buf, sk_raw, sk_wk_calls>>
    /\ UNCHANGED notSinkVars

\* mutant: the sink is left pointing to sb after the decode
SkUiResetSinkSkipped ==
    /\ sk_ui = "decoded"
    /\ sk_ui' = "reset"
    /\ UNCHANGED <<g_rtcm_strbuf, sk_log, sb_id, sb_scope, sb_buf, sb_out, sk_raw,
                   sk_wk_calls>>
    /\ UNCHANGED notSinkVars

\* rtcm_set_output_buffer(NULL);
SkUiResetSink ==
    /\ sk_ui = "decoded"
    /\ g_rtcm_strbuf' = rtcm_set_output_buffer(0)
    /\ sk_log' = sk_log \cup {[thread |-> "ui", op |-> "set"]}
    /\ sk_ui' = "reset"
    /\ UNCHANGED <<sb_id, sb_scope, sb_buf, sb_out, sk_raw, sk_wk_calls>>
    /\ UNCHANGED notSinkVars

\* the text is posted to the detail window, rtcm_strbuf_free(&sb), the raw
\* message is freed, the block of sb ends
SkUiEnd ==
    /\ sk_ui = "reset"
    /\ sb_buf' = "freed"
    /\ sb_scope' = FALSE
    /\ sk_raw' = <<>>
    /\ sk_ui' = "idle"
    /\ UNCHANGED <<g_rtcm_strbuf, sb_id, sb_out, sk_wk_calls, sk_log>>
    /\ UNCHANGED notSinkVars

SinkNext ==
    \/ \E frame \in SinkFrames : SkWorkerAnalyze(frame)
    \/ \E raw \in SinkFrames, malloc_ok \in BOOLEAN : SkUiBegin(raw, malloc_ok)
    \/ SkUiSetSink
    \/ \E outcome \in {"returns", "killed"} : SkUiDecode(outcome)
    \/ SkUiResetSink
    \/ SkUiEnd

SpecSink == SinkInit /\ [][SinkNext]_vars

(* C26: in the running program g_rtcm_strbuf is non-NULL only from the     *)
(* rtcm_set_output_buffer(&sb) right before one call of                    *)
(* analyze_rtcm_message to the rtcm_set_output_buffer(NULL) right after    *)
(* it, and while it is non-NULL it points to the sb of the handler         *)
(* invocation in progress, which is in scope and not freed.                *)
C26_SinkOnlyDuringDecode ==
    (sk_ui # "killed" /\ g_rtcm_strbuf # 0) =>
        /\ sk_ui \in {"set", "decoded"}
        /\ g_rtcm_strbuf = sb_id
        /\ sb_scope
        /\ sb_buf \in {"heap", "null"}

\* the second handler invocation has decoded into its own sb, after the sb
\* of the first one was freed
C26_Witness ==
    /\ sk_ui = "decoded"
    /\ sb_id = 2
    /\ g_rtcm_strbuf = 2
    /\ sb_out # <<>>

(* C27: only the UI thread sets g_rtcm_strbuf or prints through it: the    *)
(* worker calls analyze_rtcm_message with suppress_output = true, and such *)
(* a call prints nothing, does not read g_rtcm_strbuf and leaves the       *)
(* buffer it points to as it was.                                          *)
C27_SinkIsUiOnly ==
    /\ [](\A e \in sk_log : e.thread = "ui")
    /\ [][ (sk_wk_calls' # sk_wk_calls) =>
               (sb_out' = sb_out /\ g_rtcm_strbuf' = g_rtcm_strbuf /\ sk_log' = sk_log) ]_vars

\* the worker has analysed frames and the UI thread has decoded one into sb
C27_Witness ==
    /\ sk_wk_calls = MaxSinkCalls
    /\ [thread |-> "ui", op |-> "print"] \in sk_log
    /\ sk_ui = "decoded"
    /\ sb_out # <<>>

-----------------------------------------------------------------------------
(* AppState.config and AppState.streamBytes: what the UI thread            *)
(* (gui_events.c) and the streaming workers (gui_thread.c) do to them over *)
(* the sessions of one run of the program.                                 *)

MaxBytes == 2         \* data bytes the casters send during one run

Mountpoints == {"A", "B"}    \* the rows of the mountpoint list

\* GuiToConfig: the edit control is copied to config.MOUNTPOINT
GuiToConfig(edit) == edit

SharedInit ==
    /\ SharedIdle
    /\ NotShIdle

ShFreeSlots == {w \in Workers : sh_wk[w] = "none"}

\* the user types into the mountpoint edit control
ShEdit(m) ==
    /\ sh_ui = "idle"
    /\ sh_edit # m
    /\ sh_edit' = m
    /\ UNCHANGED <<sh_config, sh_running, sh_stop, sh_thread, sh_ui, sh_wk,
                   sh_request, sh_bytes, sh_seen, sh_done>>
    /\ UNCHANGED notShVars

\* the Open Stream button
ShOpenStream ==
    /\ sh_ui = "idle"
    /\ ~sh_running
    /\ ShFreeSlots # {}
    /\ sh_config' = GuiToConfig(sh_edit)
    /\ IF sh_config' = ""
       THEN UNCHANGED <<sh_running, sh_stop, sh_thread, sh_wk, sh_bytes, sh_seen>>
       ELSE LET w == CHOOSE x \in ShFreeSlots : \A y \in ShFreeSlots : x <= y
            IN  /\ sh_running' = TRUE
                /\ sh_stop' = FALSE
                /\ sh_bytes' = 0
                /\ sh_seen' = 0
                /\ sh_thread' = w
                /\ sh_wk' = [sh_wk EXCEPT ![w] = "connect"]
    /\ UNCHANGED <<sh_edit, sh_ui, sh_request, sh_done>>
    /\ UNCHANGED notShVars

\* double click on a row of the mountpoint list: SetWindowText, GuiToConfig
ShMountpointDblClk(m) ==
    /\ sh_ui = "idle"
    /\ sh_edit' = m
    /\ sh_config' = GuiToConfig(m)
    /\ sh_config' # sh_config \/ sh_edit' # sh_edit
    /\ UNCHANGED <<sh_running, sh_stop, sh_thread, sh_ui, sh_wk, sh_request,
                   sh_bytes, sh_seen, sh_done>>
    /\ UNCHANGED notShVars

\* the Close Stream button, up to WaitForSingleObject
ShCloseStream ==
    /\ sh_ui = "idle"
    /\ sh_running
    /\ sh_stop' = TRUE
    /\ IF sh_thread # 0
       THEN sh_ui' = "wait" /\ UNCHANGED sh_running
       ELSE sh_running' = FALSE /\ UNCHANGED sh_ui
    /\ UNCHANGED <<sh_config, sh_edit, sh_thread, sh_wk, sh_request, sh_bytes,
                   sh_seen, sh_done>>
    /\ UNCHANGED notShVars

\* WaitForSingleObject(hWorkerThread, 3000) returns: the thread has ended,
\* or it is still in connect() when the 3000 ms are over
ShCloseStreamWaitEnds ==
    /\ sh_ui = "wait"
    /\ sh_wk[sh_thread] \in {"exited", "connect"}
    /\ sh_thread' = 0
    /\ sh_running' = FALSE
    /\ sh_ui' = "idle"
    /\ UNCHANGED <<sh_config, sh_edit, sh_stop, sh_wk, sh_request, sh_bytes,
                   sh_seen, sh_done>>
    /\ UNCHANGED notShVars

\* WM_APP_STREAM_DONE
ShStreamDone ==
    /\ sh_ui = "idle"
    /\ sh_done > 0
    /\ sh_done' = sh_done - 1
    /\ sh_running' = FALSE
    /\ sh_thread' = 0
    /\ UNCHANGED <<sh_config, sh_edit, sh_stop, sh_ui, sh_wk, sh_request,
                   sh_bytes, sh_seen>>
    /\ UNCHANGED notShVars

\* WM_TIMER, IDT_STATUS_UPDATE: totalBytes is read and shown
ShStatusTimer ==
    /\ sh_ui = "idle"
    /\ sh_running
    /\ sh_seen' = sh_bytes
    /\ sh_seen' # sh_seen
    /\ UNCHANGED <<sh_config, sh_edit, sh_running, sh_stop, sh_thread, sh_ui,
                   sh_wk, sh_request, sh_bytes, sh_done>>
    /\ UNCHANGED notShVars

\* the worker resolves, connects and sends the request built from
\* state->config; connected, it resets streamBytes
ShWkConnect(w, ok) ==
    /\ sh_wk[w] = "connect"
    /\ sh_request' = [sh_request EXCEPT ![w] = sh_config]
    /\ IF ok
       THEN /\ sh_bytes' = 0
            /\ sh_wk' = [sh_wk EXCEPT ![w] = "stream"]
            /\ UNCHANGED sh_done
       ELSE /\ sh_wk' = [sh_wk EXCEPT ![w] = "exited"]
            /\ sh_done' = sh_done + 1
            /\ UNCHANGED sh_bytes
    /\ UNCHANGED <<sh_config, sh_edit, sh_running, sh_stop, sh_thread, sh_ui, sh_seen>>
    /\ UNCHANGED notShVars

\* one pass of while (!state->bStopRequested): recv() returns n data bytes,
\* or 0 when the caster has closed
ShWkLoop(w, n) ==
    /\ sh_wk[w] = "stream"
    /\ IF sh_stop \/ n = 0
       THEN /\ sh_wk' = [sh_wk EXCEPT ![w] = "exited"]
            /\ sh_done' = sh_done + 1
            /\ UNCHANGED sh_bytes
       ELSE /\ sh_bytes + n <= MaxBytes
            /\ sh_bytes' = AddLong(sh_bytes, n)
            /\ UNCHANGED <<sh_wk, sh_done>>
    /\ UNCHANGED <<sh_config, sh_edit, sh_running, sh_stop, sh_thread, sh_ui,
                   sh_request, sh_seen>>
    /\ UNCHANGED notShVars

SharedNext ==
    \/ \E m \in Mountpoints \cup {""} : ShEdit(m)
    \/ ShOpenStream
    \/ \E m \in Mountpoints : ShMountpointDblClk(m)
    \/ ShCloseStream
    \/ ShCloseStreamWaitEnds
    \/ ShStreamDone
    \/ ShStatusTimer
    \/ \E w \in Workers, ok \in BOOLEAN : ShWkConnect(w, ok)
    \/ \E w \in Workers, n \in 0..1 : ShWkLoop(w, n)

SpecShared == SharedInit /\ [][SharedNext]_vars

(* C28: during a session the status timer never shows a smaller number of  *)
(* received bytes than it showed before in that session.                   *)
C28_BytesNeverDecrease ==
    [][ ShStatusTimer => sh_seen' >= sh_seen ]_vars

(* C29: while a streaming session is running and its worker has not ended, *)
(* AppState.config keeps its value.                                        *)
C29_ConfigFrozenWhileRunning ==
    [][ (sh_running /\ sh_thread # 0 /\ sh_wk[sh_thread] \in {"connect", "stream"})
            => sh_config' = sh_config ]_vars

-----------------------------------------------------------------------------
(* C31: analyze_message_types stops receiving once analysis_time seconds   *)
(* have elapsed, whatever the caster sends or stops sending: the function  *)
(* is never still waiting in recv() when more than analysis_time seconds   *)
(* have passed since start_time.                                           *)
C31_StopsAtAnalysisTime ==
    (sess_kind = "analyze_message_types" /\ sess_pc = "recv") =>
        sess_now - start_time <= AnalysisTime

-----------------------------------------------------------------------------
(* Reading the candidates of a stream: the positions at which the framing  *)
(* loops (gui_thread.c 378-475, ntrip_handler.c 797-829) take a 0xD3 as a  *)
(* preamble and complete the candidate that starts there.                  *)
RECURSIVE CandidateStarts(_, _)
CandidateStarts(s, i) ==
    IF i + 2 > Len(s) THEN <<>>
    ELSE IF s[i] # PREAMBLE THEN CandidateStarts(s, i + 1)
    ELSE LET n == MsgLength(SubSeq(s, i, i + 2)) + 6
         IN  IF i + n - 1 > Len(s) THEN <<>>
             ELSE <<i>> \o CandidateStarts(s, i + n)

CandidateAt(s, i) == SubSeq(s, i, i + MsgLength(SubSeq(s, i, i + 2)) + 5)

\* the candidates the loops completed are those of CandidateStarts
CandidatesAsEmitted ==
    FramerDone =>
        LET cs == CandidateStarts(stream, 1)
            ds == [k \in 1..Len(cs) |-> CandidateAt(stream, cs[k])]
        IN  Datas(gui_emitted) = ds /\ Datas(cli_emitted) = ds

\* a self-consistent frame starts at i, inside the candidate that starts at a
GenuineInside(s, a, i) ==
    /\ a < i
    /\ i < a + Len(CandidateAt(s, a))
    /\ ValidFrameAt(s, i)

(* C32: when a candidate that began at a 0xD3 turns out not to be a real   *)
(* frame (its CRC does not match), the bytes buffered after that 0xD3 are  *)
(* scanned again for a preamble: a self-consistent frame that starts       *)
(* inside the rejected candidate is emitted by the GUI framer and by the   *)
(* CLI framer once the stream has been read.                               *)
C32_RescanRejectedCandidate ==
    FramerDone =>
        \A k \in 1..Len(CandidateStarts(stream, 1)) :
            LET a == CandidateStarts(stream, 1)[k]
            IN  ~CrcOk(CandidateAt(stream, a)) =>
                    \A i \in 1..Len(stream) :
                        GenuineInside(stream, a, i) =>
                            /\ CandidateAt(stream, i) \in Range(Datas(gui_emitted))
                            /\ CandidateAt(stream, i) \in Range(Datas(cli_emitted))

-----------------------------------------------------------------------------
\* offset of the first byte after the first empty line of the response, -1
\* when the response has no empty line
HeaderEnd(w) ==
    IF strstr(w, CRLFCRLF) = -1 THEN -1 ELSE strstr(w, CRLFCRLF) + 4

(* C33: the end of the response header is recognised at the first          *)
(* \r\n\r\n however the header and the delimiter are split across reads:   *)
(* as soon as the reads have covered the delimiter of an accepted          *)
(* response the header is done, and the bytes handed to the framing loop   *)
(* are exactly the bytes received after the delimiter.                     *)
C33_HeaderEndAcrossReads ==
    (StatusOk(wire) /\ HeaderEnd(wire) # -1 /\ wire_pos >= HeaderEnd(wire)) =>
        /\ header_done
        /\ hdr_fed = SubSeq(wire, HeaderEnd(wire) + 1, wire_pos)

-----------------------------------------------------------------------------
(* C39: every index of the receive buffer that is written while the        *)
(* response is read and its header skipped is below the size of the        *)
(* buffer, for every size of read from 1 to the size of the buffer.        *)
C39_ReceiveBufferBounds == buf_top < BUFFER_SIZE

-----------------------------------------------------------------------------
(* The CLI frame assembly on reads of up to sizeof(buffer) bytes            *)
(* (ntrip_handler.c 386-415, 783-830).  The caster repeats one period of   *)
(* bytes for ever: a candidate of the largest declarable length, 1023      *)
(* payload bytes, preceded by up to two bytes that are not a preamble.     *)

MaxAsmReads == 2          \* recv() calls of one session

\* 0xD3, length 1023, 1023 payload bytes and 3 CRC bytes, all zero
BigCandidate == <<PREAMBLE, 3, 255>> \o [i \in 1..1026 |-> 0]

AsmWires == { g \o BigCandidate : g \in {<<>>, <<0>>, <<0, 0>>} }

\* the n wire bytes that follow the first from bytes
AsmBytes(w, from, n) == [k \in 1..n |-> w[((from + k - 1) % Len(w)) + 1]]

\* the sizes of read tried: single bytes, a whole candidate more or less,
\* what is left of msg_buffer beside a pending candidate, the whole buffer
AsmReadSizes == {1, 2, 3, 1028, 1029, BUFFER_SIZE - 1028, BUFFER_SIZE - 1,
                 BUFFER_SIZE}

AssemblyInit ==
    /\ asm_wire \in AsmWires
    /\ asm_recvd = 0
    /\ asm_reads = 0
    /\ asm_buffer = <<>>
    /\ asm_frames = 0
    /\ asm_spin = FALSE
    /\ asm_split = FALSE
    /\ NotAsmIdle

\* recv() returns received bytes and the copy loop runs over them
AsmRecv(received) ==
    /\ asm_reads < MaxAsmReads
    /\ ~asm_spin
    /\ \E c \in { CliFeed([msg_buffer |-> asm_buffer, emitted |-> <<>>,
                           output |-> <<>>, spin |-> FALSE],
                          AsmBytes(asm_wire, asm_recvd, received)) } :
           /\ asm_buffer' = c.msg_buffer
           /\ asm_frames' = asm_frames + Len(c.emitted)
           /\ asm_spin' = c.spin
    /\ asm_split' = (Len(asm_buffer) + received > BUFFER_SIZE)
    /\ asm_recvd' = asm_recvd + received
    /\ asm_reads' = asm_reads + 1
    /\ UNCHANGED asm_wire
    /\ UNCHANGED notAsmVars

AssemblyNext == \E received \in AsmReadSizes : AsmRecv(received)

SpecAssembly == AssemblyInit /\ [][AssemblyNext]_vars

\* the bytes before the preamble in one period of the wire
AsmGarbage(w) == Len(w) - Len(BigCandidate)

\* the received bytes of the candidate that is not complete yet
AsmPending(w, recvd) ==
    IF recvd % Len(w) <= AsmGarbage(w) THEN <<>>
    ELSE SubSeq(w, AsmGarbage(w) + 1, recvd % Len(w))

(* C38: in the CLI frame assembly every pass of the copy loop copies at    *)
(* least one byte, msg_buffer_len is below BUFFER_SIZE after every chunk,  *)
(* and no byte that follows a preamble is dropped: every candidate that    *)
(* has arrived completely has been handed on, and msg_buffer holds the     *)
(* bytes received last, all those of the candidate that is not complete    *)
(* yet and at most two bytes before its preamble.                          *)
C38_CopyLoopProgress ==
    /\ ~asm_spin
    /\ Len(asm_buffer) < BUFFER_SIZE
    /\ asm_frames = asm_recvd \div Len(asm_wire)
    /\ asm_buffer = AsmBytes(asm_wire, asm_recvd - Len(asm_buffer), Len(asm_buffer))
    /\ Len(AsmPending(asm_wire, asm_recvd)) <= Len(asm_buffer)
    /\ Len(asm_buffer) <= Len(AsmPending(asm_wire, asm_recvd)) + 2

\* a chunk that did not fit beside the pending candidate in one copy has
\* been taken in completely
C38_Witness ==
    /\ asm_split
    /\ asm_frames >= 4
    /\ Len(asm_buffer) > 0
    /\ ~asm_spin

-----------------------------------------------------------------------------
(* C34: a WM_APP_STREAM_DONE ends only the session of the worker that      *)
(* posted it: when OnStreamDone handles the message while a session is     *)
(* running, the worker of that session is the one that posted it.          *)
C34_DoneEndsOwnSession ==
    [][ (OnStreamDone /\ bWorkerRunning)
            => GetMessage(queue).msg.w = hWorkerThread ]_vars

(* C35: bStopRequested, once set for a running streaming worker, stays set *)
(* until that worker has seen it and returned: the flag goes back to FALSE *)
(* only when no streaming worker is alive.                                 *)
C35_StopFlagKeptUntilSeen ==
    [][ (bStopRequested /\ ~bStopRequested')
            => \A w \in Workers : w_kind[w] = "stream" => ~Alive(w) ]_vars

\* the completion message of a worker
Completion(w) ==
    Msg(IF w_kind[w] = "mount" THEN "MOUNT" ELSE "DONE", w, 0, 0)

\* the positions of the messages of worker w in the queue
PostedBy(q, w) == {i \in 1..Len(q) : q[i].w = w}

(* C36: every run of a worker thread posts exactly one completion message  *)
(* (WM_APP_STREAM_DONE or WM_APP_MOUNT_RESULT) on whatever path it         *)
(* returns, and nothing after it: the step in which a worker returns       *)
(* appends its completion message to the queue, a worker that has returned *)
(* posts no further message, and in the queue the completion message of a  *)
(* worker is its only one and follows all its other messages.              *)
C36_OneCompletionPerRun ==
    /\ [](\A w \in Workers : \A i \in PostedBy(queue, w) :
              queue[i].m \in {"DONE", "MOUNT"} =>
                  /\ w_pc[w] = "exited"
                  /\ queue[i] = Completion(w)
                  /\ \A j \in PostedBy(queue, w) : j <= i
                  /\ \A j \in PostedBy(queue, w) :
                         queue[j].m \in {"DONE", "MOUNT"} => j = i)
    /\ [][\A w \in Workers :
            /\ (w_pc[w] # "exited" /\ w_pc'[w] = "exited")
                   => queue' = Append(queue, Completion(w))
            /\ w_pc[w] = "exited"
                   => Cardinality(PostedBy(queue', w))
                          <= Cardinality(PostedBy(queue, w))]_vars

\* a streaming worker has posted per-frame messages and then, having
\* returned, its completion message, which is the last one in the queue
C36_Witness ==
    \E w \in Workers :
        /\ w_kind[w] = "stream"
        /\ w_pc[w] = "exited"
        /\ w_frames[w] >= 1
        /\ Cardinality(PostedBy(queue, w)) >= 2
        /\ queue[Len(queue)] = Completion(w)

-----------------------------------------------------------------------------
(* The decoded text of a detail window.  The worker posts the raw frames   *)
(* of type T while hDetailWnds[T] is set (gui_thread.c 452-465); the       *)
(* WM_APP_MSG_RAW handler decodes a frame into a text block and posts the  *)
(* block to the detail window (gui_events.c 1448-1491), whose window       *)
(* procedure shows and frees it (gui_detail.c 67-77).                      *)

MaxDetailFrames == 2      \* frames of type T during one session
MaxDetailWnds   == 2      \* detail windows opened during one session

DtMsg(kind, wnd, id) == [m |-> kind, wnd |-> wnd, id |-> id]

\* DestroyWindow(wnd): the window ends and the messages posted to it are
\* removed from the queue of its thread
DestroyWindow(q, wnd) == SelectSeq(q, LAMBDA e : ~(e.m = "UPDATE" /\ e.wnd = wnd))

DetailInit ==
    /\ DetailIdle
    /\ NotDtIdle

\* double click on the row of T: CreateDetailWindow unless the slot is set
DtOpenDetail ==
    /\ dt_slot = 0
    /\ dt_created < MaxDetailWnds
    /\ dt_created' = dt_created + 1
    /\ dt_slot' = dt_created + 1
    /\ dt_windows' = dt_windows \cup {dt_created + 1}
    /\ UNCHANGED <<dt_queue, dt_heap, dt_frames, dt_worker, dt_shown>>
    /\ UNCHANGED notDtVars

\* the worker has a complete frame of type T and posts its raw copy
DtWkFrame(raw_ok) ==
    /\ dt_worker = "stream"
    /\ dt_frames < MaxDetailFrames
    /\ dt_frames' = dt_frames + 1
    /\ dt_queue' = IF dt_slot # 0 /\ raw_ok
                   THEN Append(dt_queue, DtMsg("RAW", 0, dt_frames + 1))
                   ELSE dt_queue
    /\ UNCHANGED <<dt_slot, dt_windows, dt_created, dt_heap, dt_worker, dt_shown>>
    /\ UNCHANGED notDtVars

\* the worker leaves its loop, posts WM_APP_STREAM_DONE and returns
DtWkDone ==
    /\ dt_worker = "stream"
    /\ dt_worker' = "exited"
    /\ dt_queue' = Append(dt_queue, DtMsg("DONE", 0, 0))
    /\ UNCHANGED <<dt_slot, dt_windows, dt_created, dt_heap, dt_frames, dt_shown>>
    /\ UNCHANGED notDtVars

\* WM_APP_MSG_RAW: decode, copy the text to a block from the heap and post
\* the block to hDetailWnds[T]; PostMessage fails when that window is gone
DtOnMsgRaw(text_ok) ==
    /\ dt_queue # <<>>
    /\ Head(dt_queue).m = "RAW"
    /\ LET id     == Head(dt_queue).id
           posted == dt_slot \in dt_windows
       IN  IF dt_slot # 0 /\ text_ok
           THEN /\ dt_heap' = HeapAlloc(dt_heap, id)
                /\ dt_queue' = IF posted
                               THEN Append(Tail(dt_queue), DtMsg("UPDATE", dt_slot, id))
                               ELSE Tail(dt_queue)
           ELSE /\ dt_queue' = Tail(dt_queue)
                /\ UNCHANGED dt_heap
    /\ UNCHANGED <<dt_slot, dt_windows, dt_created, dt_frames, dt_worker, dt_shown>>
    /\ UNCHANGED notDtVars

\* WM_DETAIL_UPDATE in the detail window: SetWindowText, HeapFree
DtOnDetailUpdate ==
    /\ dt_queue # <<>>
    /\ Head(dt_queue).m = "UPDATE"
    /\ dt_queue' = Tail(dt_queue)
    /\ dt_heap' = HeapFree(dt_heap, Head(dt_queue).id)
    /\ dt_shown' = dt_shown + 1
    /\ UNCHANGED <<dt_slot, dt_windows, dt_created, dt_frames, dt_worker>>
    /\ UNCHANGED notDtVars

\* WM_CLOSE in a detail window: WM_APP_DETAIL_CLOSED is posted to the main
\* window, then DestroyWindow
DtCloseDetail(wnd) ==
    /\ wnd \in dt_windows
    /\ dt_windows' = dt_windows \ {wnd}
    /\ dt_queue' = DestroyWindow(Append(dt_queue, DtMsg("CLOSED", wnd, 0)), wnd)
    /\ UNCHANGED <<dt_slot, dt_created, dt_heap, dt_frames, dt_worker, dt_shown>>
    /\ UNCHANGED notDtVars

\* WM_APP_DETAIL_CLOSED: the slot of T is cleared
DtOnDetailClosed ==
    /\ dt_queue # <<>>
    /\ Head(dt_queue).m = "CLOSED"
    /\ dt_queue' = Tail(dt_queue)
    /\ dt_slot' = 0
    /\ UNCHANGED <<dt_windows, dt_created, dt_heap, dt_frames, dt_worker, dt_shown>>
    /\ UNCHANGED notDtVars

\* WM_APP_STREAM_DONE: OnStreamDone destroys the detail window of the slot
DtOnStreamDone ==
    /\ dt_queue # <<>>
    /\ Head(dt_queue).m = "DONE"
    /\ dt_slot' = 0
    /\ dt_windows' = dt_windows \ {dt_slot}
    /\ dt_queue' = IF dt_slot # 0 THEN DestroyWindow(Tail(dt_queue), dt_slot)
                                  ELSE Tail(dt_queue)
    /\ UNCHANGED <<dt_created, dt_heap, dt_frames, dt_worker, dt_shown>>
    /\ UNCHANGED notDtVars

DetailNext ==
    \/ DtOpenDetail
    \/ \E raw_ok \in BOOLEAN : DtWkFrame(raw_ok)
    \/ DtWkDone
    \/ \E text_ok \in BOOLEAN : DtOnMsgRaw(text_ok)
    \/ DtOnDetailUpdate
    \/ \E wnd \in 1..MaxDetailWnds : DtCloseDetail(wnd)
    \/ DtOnDetailClosed
    \/ DtOnStreamDone

SpecDetail == DetailInit /\ [][DetailNext]_vars

\* the queued WM_DETAIL_UPDATE messages that carry text block id
TextInQueue(id) ==
    {i \in 1..Len(dt_queue) : dt_queue[i].m = "UPDATE" /\ dt_queue[i].id = id}

(* C37: every text block the UI thread allocates for a detail window is    *)
(* freed exactly once, by the detail window it is delivered to or by the   *)
(* sender when it cannot be delivered: no block is freed twice, and a      *)
(* block that is not freed yet is on its way to a detail window that       *)
(* exists, carried by exactly one queued message.                          *)
C37_TextBlocksFreedOnce ==
    /\ ~dt_heap.fault
    /\ \A id \in dt_heap.live :
          /\ Cardinality(TextInQueue(id)) = 1
          /\ \A i \in TextInQueue(id) : dt_queue[i].wnd \in dt_windows

-----------------------------------------------------------------------------
(* The capture buffer: rtcm_strbuf_init and rtcm_printf                    *)
(* (rtcm3x_parser.c 27-32, 53-80) as the WM_APP_MSG_RAW handler uses them  *)
(* (gui_events.c 1466-1481).  A call of rtcm_printf is given by n, the     *)
(* length of the formatted text.                                           *)

MaxPrints == 3            \* calls of rtcm_printf during one decode

InitialCap == 4096        \* rtcm_strbuf_init(&sb, 4096)

\* the lengths of formatted text tried
PrintLengths == {0, 1, 100, InitialCap - 101, InitialCap - 1, InitialCap, 5000}

\* vsnprintf(buf + len, size, ...): the number of characters stored, the
\* terminating 0 not counted
Stored(n, size) == IF size <= 0 THEN 0 ELSE IF n < size THEN n ELSE size - 1

CaptureInit ==
    /\ CaptureIdle
    /\ NotCbIdle

\* rtcm_strbuf_init(&sb, 4096)
rtcm_strbuf_init(malloc_ok) ==
    /\ cb_buf = "none"
    /\ cb_buf' = IF malloc_ok THEN "heap" ELSE "null"
    /\ cb_len' = 0
    /\ cb_cap' = InitialCap
    /\ UNCHANGED <<cb_text, cb_calls, cb_overrun>>
    /\ UNCHANGED notCbVars

\* rtcm_printf with g_rtcm_strbuf = &sb and sb.buf set
rtcm_printf(n, realloc_ok) ==
    /\ cb_buf = "heap"
    /\ cb_calls < MaxPrints
    /\ ~cb_overrun
    /\ cb_calls' = cb_calls + 1
    /\ LET avail   == cb_cap - cb_len
           grow    == n >= avail
           new_cap == IF cb_cap * 2 < cb_len + n + 1 THEN cb_len + n + 1
                      ELSE cb_cap * 2
           stored  == IF grow /\ realloc_ok THEN n ELSE Stored(n, avail)
       IN  /\ cb_overrun' = (avail < 0)
           /\ cb_cap' = IF grow /\ realloc_ok THEN new_cap ELSE cb_cap
           /\ cb_text' = IF cb_text >= cb_len THEN cb_len + stored ELSE cb_text
           /\ cb_len' = IF n > 0 THEN cb_len + n ELSE cb_len
    /\ UNCHANGED cb_buf
    /\ UNCHANGED notCbVars

CaptureNext ==
    \/ \E malloc_ok \in BOOLEAN : rtcm_strbuf_init(malloc_ok)
    \/ \E n \in PrintLengths, realloc_ok \in BOOLEAN : rtcm_printf(n, realloc_ok)

SpecCapture == CaptureInit /\ [][CaptureNext]_vars

(* C40: after every write of decoder output into a capture buffer,         *)
(* 0 <= len < cap, and buf[0 .. len) holds only text that was written,     *)
(* also when an attempt to grow the buffer has failed.                     *)
C40_CaptureBufferBounds ==
    cb_buf = "heap" =>
        /\ 0 <= cb_len
        /\ cb_len < cb_cap
        /\ cb_text >= cb_len
        /\ ~cb_overrun

====
